---- MODULE Spec2Model ----
(***************************************************************************)
(* A model of the ha_taco integration core: the GATT capability catalog,   *)
(* the write transforms, BleDataUpdateCoordinator.write (the write         *)
(* dispatcher), BleDataUpdateCoordinator.poll (the read scheduler's policy *)
(* evaluation) and the reconciliation loop of taco_init.py.                *)
(*                                                                         *)
(* Nine specifications  share the module:                                  *)
(*   Spec      concurrent write() calls on one coordinator                 *)
(*   SpecLoop  the periodic _loop driven by a one second interval timer    *)
(*   SpecPoll  poll()/setup(), the read-set policy and the result store    *)
(*   SpecSession  SpecPoll together with a task that calls shutdown()      *)
(*   SpecCodec the zone flags through the write and the read transform      *)
(*   SpecLocks the acquisitions of _client_lock and _results_lock alone     *)
(*   SpecCatalogs  one write() call on each small catalog of WRITE shapes  *)
(*   SpecStragglers  poll() with the reads a raised gather leaves in flight *)
(*   SpecZones  the zone switches and the batch the loop computes          *)
(* Each leaves the variables it does not name at their initial values.     *)
(*                                                                         *)
(* Time is counted in whole seconds.  A timestamp t is kept as its age     *)
(* now - t, which is all the code ever computes from it; ages saturate     *)
(* just above the largest threshold they are compared with.                *)
(***************************************************************************)
EXTENDS Naturals, Integers, Sequences, FiniteSets, Bags, TLC

VARIABLES
  gatt,                         \* BleDataUpdateCoordinator._gatt, flattened
  client_connected,             \* _client is set and _client.is_connected
  client_lock,                  \* holder of _client_lock, 0 when free
  successful_write_age,         \* now - _successful_write_time
  successful_notification_age,  \* now - _successful_notification_time
  wpc,                          \* write(): position of each calling task
  wbatch,                       \* write(): the `actions` argument
  wi,                           \* write(): index of `action` in actions
  wj,                           \* write(): index of `characteristic` in the catalog
  wsuccess,                     \* write(): local successful_write
  sent,                         \* history: per call, the wire writes it issued
  wire,                         \* history: the order of wire writes of all calls
  force_zone_on,                \* TacoRuntimeData.force_zone_on
  state,                        \* setup_write_loop's `state` dict
  tasks,                        \* bag of _loop bodies suspended in an await
  failed_since,                 \* history: a loop write raised since the last stamp
  user_acted,                   \* history: a switch has been actuated
  ev,                           \* history: what the last _loop step did
  ppc,                          \* poll(): position of the polling task
  pfirst,                       \* poll(): the is_first_poll argument
  pread,                        \* poll(): poll_gatt_characteristics (indices)
  pvia_setup,                   \* poll(): the call was issued by setup()
  presetup,                     \* history: that setup() was called by poll()
  pfault,                       \* history: what made the current call's gather raise
  preturn,                      \* history: what the last call of the polling task returned
  subscribed,                   \* characteristics with a handler on the session
  late,                         \* keys of the reads left in flight by a gather that raised
  results,                      \* keys of BleDataUpdateCoordinator._results
  issued,                       \* history: bag of the reads issued by the current call
  decoded,                      \* history: reads of the current call that gave a result
  spc,                          \* shutdown(): position of the task that calls it
  cpc,                          \* codec: how far the zone flags have travelled
  zones_in,                     \* codec: the ZoneInfo given to the write transform
  wframe,                       \* codec: the bytes the write transform returned
  rframe,                       \* codec: the bytes read back from the peripheral
  rresult,                      \* codec: what the read transform made of them
  lpc,                          \* locks: position of each task in its lock operations
  results_lock,                 \* locks: holder of _results_lock, 0 when free
  touched,                      \* history: the last step's accesses to _results and the times
  pushed                        \* history: the notification the last step delivered

dispVars == <<client_connected, client_lock, wpc, wbatch, wi, wj, wsuccess, sent, wire>>
timeVars == <<successful_write_age, successful_notification_age>>
loopVars == <<force_zone_on, state, tasks, failed_since, user_acted, ev>>
pollVars ==
  <<ppc, pfirst, pread, pvia_setup, presetup, subscribed, late, pfault, preturn>>
storeVars == <<results, issued, decoded>>
codecVars == <<cpc, zones_in, wframe, rframe, rresult>>
lockVars == <<lpc, results_lock>>
vars ==
  <<gatt, dispVars, timeVars, loopVars, pollVars, storeVars, spc, codecVars, lockVars,
    touched, pushed>>

-----------------------------------------------------------------------------
(* Bounds of the model *)

\* number of tasks that call write() concurrently
NumWriters == 2
\* number of _loop bodies that may be suspended in a write at once
MaxInFlight == 2
-----------------------------------------------------------------------------
(* gatt.py: enums *)

NOOP == 1
INDEX == 2
POLL == 3
SUBSCRIBE == 4
AFTER_WRITE == 5
AFTER_NOTIFICATION == 6

READ == 1
NOTIFY == 2
WRITE == 3
EXTENDED_PROPS == 4
INDICATE == 5

\* Python's None
None == "None"

\* gatt.py Characteristic; rt and wt name the transform functions, "default"
\* being the dataclass defaults (lambda a: a) and (lambda _a, _b: None).
Characteristic(name, properties, read_action, rt, wt) ==
  [name |-> name, properties |-> properties, read_action |-> read_action,
   read_transform |-> rt, write_transform |-> wt]

\* const.py _TACO_SERVICES, in the order
\* "for service in services for characteristic in service.characteristics"
taco_gatt ==
  << Characteristic("platformId", {READ}, NOOP, "default", "default"),
     Characteristic("firmwareVersion", {READ}, NOOP, "default", "default"),
     Characteristic("productId", {READ}, NOOP, "default", "default"),
     Characteristic("serialNumber", {READ}, NOOP, "default", "default"),
     Characteristic("status", {READ, NOTIFY}, NOOP, "default", "default"),
     Characteristic("deviceName", {READ, WRITE}, NOOP, "default", "default"),
     Characteristic("location", {READ, WRITE}, NOOP, "default", "default"),
     Characteristic("notes", {READ, WRITE, EXTENDED_PROPS}, NOOP, "default", "default"),
     Characteristic("password", {WRITE}, NOOP, "default", "write_password_transform"),
     Characteristic("interfaceRevision", {READ}, NOOP, "default", "default"),
     Characteristic("diagnosticMode", {READ, WRITE}, NOOP, "default", "default"),
     Characteristic("networkDeviceIndex", {READ, WRITE}, NOOP, "default", "default"),
     Characteristic("networkDeviceName", {READ, WRITE}, NOOP, "default", "default"),
     Characteristic("networkProductId", {READ}, INDEX,
                    "read_product_id_transform", "default"),
     Characteristic("networkDiagnosticData", {READ, INDICATE}, AFTER_NOTIFICATION,
                    "read_network_diagnostic_data_transform", "default"),
     Characteristic("networkFirmwareVersion", {READ}, NOOP, "default", "default"),
     Characteristic("networkDIPInputStatus", {READ, NOTIFY}, NOOP, "default", "default"),
     Characteristic("pumpExerciseOffTime", {READ, WRITE}, NOOP, "default", "default"),
     Characteristic("pumpExerciseOnTime", {READ, WRITE}, NOOP, "default", "default"),
     Characteristic("postPurgeTime", {READ, WRITE}, NOOP, "default", "default"),
     Characteristic("zvcInterfaceRevision", {READ}, NOOP, "default", "default"),
     Characteristic("networkZoneNames", {READ, WRITE, EXTENDED_PROPS}, NOOP,
                    "default", "default"),
     Characteristic("networkId", {READ}, NOOP, "default", "default"),
     Characteristic("networkDeviceLocation", {READ, WRITE}, NOOP, "default", "default"),
     Characteristic("networkAddressMapping", {READ, NOTIFY}, NOOP, "default", "default"),
     Characteristic("networkAddressStatus", {READ, NOTIFY}, NOOP, "default", "default"),
     Characteristic("networkZoneCount", {READ}, INDEX,
                    "read_network_zone_count_transform", "default"),
     Characteristic("networkThermostatInputStatus", {READ, NOTIFY}, SUBSCRIBE,
                    "read_network_thermostat_input_status_transform", "default"),
     Characteristic("networkZoneStatus", {READ, NOTIFY}, SUBSCRIBE,
                    "read_network_zone_status_transform", "default"),
     Characteristic("networkMainBoilerEndSwitch", {READ, WRITE}, NOOP,
                    "default", "default"),
     Characteristic("networkPriorityBoilerEndSwitch", {READ, WRITE}, NOOP,
                    "default", "default"),
     Characteristic("networkAux1", {READ, WRITE}, NOOP, "default", "default"),
     Characteristic("networkAux2", {READ, WRITE}, NOOP, "default", "default"),
     Characteristic("networkAux3", {READ, WRITE}, NOOP, "default", "default"),
     Characteristic("networkOutputNames", {READ, WRITE, EXTENDED_PROPS}, NOOP,
                    "default", "default"),
     Characteristic("operatingMode", {READ, WRITE}, NOOP, "default", "default"),
     Characteristic("networkDiagnosticMode", {READ, WRITE}, NOOP, "default",
                    "write_network_diagnostic_mode_transform"),
     Characteristic("networkRecircMode", {READ, WRITE}, NOOP, "default", "default") >>

-----------------------------------------------------------------------------
(* taco_gatt_write_transform.py *)

PROVIDE_PASSWORD == "provide_password"
REQUEST_FORCE_ZONE_STATUS == "request_force_zones_status"
FORCE_ZONE_ON == "force_zones_on"

\* WriteRequest(action, extra).  `extra` is a password (a sequence of code
\* points, or None), a ZoneInfo (six values, each True, False or None) or None.
WriteRequest(action, extra) == [action |-> action, extra |-> extra]

StrExtra(s) == [kind |-> "str", str |-> s, zones |-> <<>>]
ZoneExtra(z) == [kind |-> "zones", str |-> <<>>, zones |-> z]
NoneExtra == [kind |-> "none", str |-> <<>>, zones |-> <<>>]

\* results of a write transform: bytes, None, or an exception
Bytes(b) == [tag |-> "bytes", bytes |-> b]
NoBytes == [tag |-> "none", bytes |-> <<>>]
Raises == [tag |-> "raise", bytes |-> <<>>]

\* BYTE_BY_ZONE of taco_gatt_read_transform.py: zone n has weight 2^(n-1)
BYTE_BY_ZONE == <<1, 2, 4, 8, 16, 32>>

RECURSIVE BitOr(_, _)
BitOr(a, b) ==
  IF a = 0 THEN b
  ELSE IF b = 0 THEN a
  ELSE (IF (a % 2 = 1) \/ (b % 2 = 1) THEN 1 ELSE 0) + 2 * BitOr(a \div 2, b \div 2)

\* Python truthiness of a zone value
Truthy(v) == v = "True"

RECURSIVE ZoneByteFrom(_, _, _)
ZoneByteFrom(zone_info, n, zone_byte) ==
  IF n > Len(zone_info) THEN zone_byte
  ELSE ZoneByteFrom(zone_info, n + 1,
         BitOr(zone_byte, IF Truthy(zone_info[n]) THEN BYTE_BY_ZONE[n] ELSE 0))

_write_force_zone_on(zone_info) == <<0, 16, 0, ZoneByteFrom(zone_info, 1, 0)>>

_write_force_zone_status_request == <<1, 0, 0, 16>>

\* bytearray(password, encoding="ascii"): a TypeError for None, a
\* UnicodeEncodeError for a code point above 127
write_password_transform(action, extra) ==
  IF action # PROVIDE_PASSWORD THEN NoBytes
  ELSE IF extra.kind # "str" THEN Raises
  ELSE IF \E k \in 1..Len(extra.str) : extra.str[k] > 127 THEN Raises
  ELSE Bytes(extra.str)

write_network_diagnostic_mode_transform(action, extra) ==
  IF action = REQUEST_FORCE_ZONE_STATUS THEN Bytes(_write_force_zone_status_request)
  ELSE IF action = FORCE_ZONE_ON
    THEN (IF extra.kind = "zones" THEN Bytes(_write_force_zone_on(extra.zones))
          ELSE Raises)
  ELSE NoBytes

\* characteristic.write_transform(action.action, action.extra)
write_transform(characteristic, request) ==
  IF characteristic.write_transform = "write_password_transform"
    THEN write_password_transform(request.action, request.extra)
  ELSE IF characteristic.write_transform = "write_network_diagnostic_mode_transform"
    THEN write_network_diagnostic_mode_transform(request.action, request.extra)
  ELSE NoBytes

-----------------------------------------------------------------------------
(* Inputs of the write dispatcher *)

\* "secret" in ASCII
secret == <<115, 101, 99, 114, 101, 116>>

zone1_on == <<"True", "False", "False", "False", "False", "False">>

authorize(password) == WriteRequest(PROVIDE_PASSWORD, password)
force_zone_on_request(zone_info) == WriteRequest(FORCE_ZONE_ON, ZoneExtra(zone_info))

\* the batch of the dispatcher's documented scenario
AuthForceBatch == <<authorize(StrExtra(secret)), force_zone_on_request(zone1_on)>>

\* the longest password _validate_password of taco_init.py accepts
MaxPasswordLen == 20

\* a password one character longer than that
long_secret == [k \in 1..(MaxPasswordLen + 1) |-> 97]

\* a batch whose authorization payload is too long
LongAuthBatch == <<authorize(StrExtra(long_secret))>>

\* an action name that no write transform of the catalog knows
unknown_request == WriteRequest("unknown_action", NoneExtra)

\* a batch whose first intent no characteristic answers
UnroutableFirstBatch == <<unknown_request, force_zone_on_request(zone1_on)>>

WriteBatches ==
  { AuthForceBatch,
    LongAuthBatch,
    <<>>,
    <<WriteRequest("unknown_action", NoneExtra)>>,
    <<WriteRequest("unknown_action", NoneExtra), force_zone_on_request(zone1_on)>>,
    <<authorize(StrExtra(<<>>)), force_zone_on_request(zone1_on)>>,
    <<authorize(NoneExtra), force_zone_on_request(zone1_on)>> }

Writers == 1..NumWriters

\* the kinds of WRITE characteristic of the Taco catalog (one for each write
\* transform and one with the default transform), a characteristic that is
\* given a write transform but not WRITE, and one with WRITE but not READ
\* that is given a read action
CatalogShapes ==
  { Characteristic("password", {WRITE}, NOOP, "default", "write_password_transform"),
    Characteristic("networkDiagnosticMode", {READ, WRITE}, NOOP, "default",
                   "write_network_diagnostic_mode_transform"),
    Characteristic("deviceName", {READ, WRITE}, NOOP, "default", "default"),
    Characteristic("shape", {READ}, POLL, "default", "write_password_transform"),
    Characteristic("shape", {WRITE}, POLL, "default",
                   "write_network_diagnostic_mode_transform") }

\* the catalogs of CatalogLen characteristics of these kinds, among them
\* catalogs in which two characteristics answer the same request
CatalogLen == 3
WriteCatalogs == [1..CatalogLen -> CatalogShapes]

-----------------------------------------------------------------------------
(* ble_data_update_coordinator.py: the accesses to _results,
   _successful_write_time and _successful_notification_time *)

\* one access: the attribute, "read" or "write", the method that makes it,
\* and whether the statement stands inside `async with self._results_lock`
Access(attribute, mode, by, locked) ==
  [attribute |-> attribute, mode |-> mode, by |-> by, locked |-> locked]

\* what the last step delivered: no notification, or a notification of the
\* characteristic k (an index into the catalog) and what handle_notification
\* made of it
NoPush == [k |-> 0, outcome |-> "none"]
Pushed(k, outcome) == [k |-> k, outcome |-> outcome]

\* the step makes the accesses `accesses` and no others; it is not the
\* delivery of a notification
Touch(accesses) == touched' = accesses /\ pushed' = NoPush

\* write(): self._successful_write_time = datetime.now(), after the try
WriteStampAccess == Access("_successful_write_time", "write", "write", FALSE)

\* _consume_result: async with self._results_lock: self._results[key] = value
ConsumeAccess == Access("_results", "write", "_consume_result", TRUE)

\* _consume_result: self._successful_notification_time = datetime.now(),
\* before the lock is taken
NotificationStampAccess ==
  Access("_successful_notification_time", "write", "_consume_result", FALSE)

\* force_data_clear: async with self._results_lock: self._results = {}
ClearAccess == Access("_results", "write", "force_data_clear", TRUE)

\* poll(): async with self._results_lock: return self._results.copy()
SnapshotAccess == Access("_results", "read", "poll", TRUE)

\* poll(): the comprehension reads a timestamp for every READ characteristic
\* whose earlier clauses did not settle the `or` already
PolicyAccesses(g, is_first_poll) ==
  { Access("_successful_write_time", "read", "poll", FALSE) :
      k \in { k \in 1..Len(g) : /\ READ \in g[k].properties
                                 /\ ~(g[k].read_action # NOOP /\ is_first_poll)
                                 /\ g[k].read_action = AFTER_WRITE } }
  \cup
  { Access("_successful_notification_time", "read", "poll", FALSE) :
      k \in { k \in 1..Len(g) : /\ READ \in g[k].properties
                                 /\ ~(g[k].read_action # NOOP /\ is_first_poll)
                                 /\ g[k].read_action = AFTER_NOTIFICATION } }

-----------------------------------------------------------------------------
(* ble_data_update_coordinator.py: write *)

\* DEFAULT_AFTER_WRITE_INTERVAL and DEFAULT_AFTER_NOTIFICATION_INTERVAL, seconds
DEFAULT_AFTER_WRITE_INTERVAL == 5
DEFAULT_AFTER_NOTIFICATION_INTERVAL == 5

\* the age at which the two timestamps saturate; the constructor's
\* datetime.fromisoformat("2011-11-04") is this old
PastAge == DEFAULT_AFTER_WRITE_INTERVAL + DEFAULT_AFTER_NOTIFICATION_INTERVAL

\* (i, j) comes before (k, l) in the order the two nested loops of write()
\* visit (action index, characteristic index)
Before(i, j, k, l) == i < k \/ (i = k /\ j < l)

\* no characteristic with WRITE has a write_transform that answers the request
Unroutable(g, request) ==
  \A j \in 1..Len(g) :
    WRITE \in g[j].properties => write_transform(g[j], request) = NoBytes

\* the loops of write() with a request that no characteristic answers taken
\* as an error
NextWrite_UnroutableRaises(g, actions, i, j) ==
  LET stops == { p \in (1..Len(actions)) \X (1..Len(g)) :
                   /\ ~Before(p[1], p[2], i, j)
                   /\ WRITE \in g[p[2]].properties
                   /\ LET bytez == write_transform(g[p[2]], actions[p[1]]) IN
                        \/ bytez.tag = "raise"
                        \/ (bytez.tag = "bytes" /\ bytez.bytes # <<>>)
                        \/ Unroutable(g, actions[p[1]]) }
  IN IF stops = {} THEN [tag |-> "end", i |-> Len(actions) + 1, j |-> 1]
     ELSE LET p == CHOOSE q \in stops :
                     \A r \in stops : r = q \/ Before(q[1], q[2], r[1], r[2])
          IN [tag |-> IF write_transform(g[p[2]], actions[p[1]]).tag = "bytes"
                        THEN "hit" ELSE "raise",
              i |-> p[1], j |-> p[2]]

\* The two nested loops of write(), run from (action i, characteristic j)
\* without suspending, stop at the first pair where a characteristic with
\* WRITE returns non-empty bytes ("hit": the await of _write_gatt) or raises
\* ("raise"); without such a pair they run to the end of the batch ("end").
NextWrite(g, actions, i, j) ==
  LET stops == { p \in (1..Len(actions)) \X (1..Len(g)) :
                   /\ ~Before(p[1], p[2], i, j)
                   /\ WRITE \in g[p[2]].properties
                   /\ LET bytez == write_transform(g[p[2]], actions[p[1]]) IN
                        bytez.tag = "raise" \/ (bytez.tag = "bytes" /\ bytez.bytes # <<>>) }
  IN IF stops = {} THEN [tag |-> "end", i |-> Len(actions) + 1, j |-> 1]
     ELSE LET p == CHOOSE q \in stops :
                     \A r \in stops : r = q \/ Before(q[1], q[2], r[1], r[2])
          IN [tag |-> IF write_transform(g[p[2]], actions[p[1]]).tag = "raise"
                        THEN "raise" ELSE "hit",
              i |-> p[1], j |-> p[2]]

\* write() that takes the write time on every return, written or not
WriteRun_StampAlways(c, i, j, success) ==
  LET nxt == NextWrite(gatt, wbatch[c], i, j) IN
  /\ wi' = [wi EXCEPT ![c] = nxt.i]
  /\ wj' = [wj EXCEPT ![c] = nxt.j]
  /\ wsuccess' = [wsuccess EXCEPT ![c] = success]
  /\ IF nxt.tag = "hit"
       THEN /\ wpc' = [wpc EXCEPT ![c] = "write_gatt_char"]
            /\ sent' = [sent EXCEPT ![c] = Append(@, [i |-> nxt.i, j |-> nxt.j,
                                                      settled |-> wpc[c] # "write_gatt_char"])]
            /\ wire' = Append(wire, c)
            /\ Touch({})
            /\ UNCHANGED <<successful_write_age>>
     ELSE IF nxt.tag = "raise"
       THEN /\ wpc' = [wpc EXCEPT ![c] = "raised"]
            /\ Touch({})
            /\ UNCHANGED <<sent, wire, successful_write_age>>
     ELSE /\ wpc' = [wpc EXCEPT ![c] = "returned"]
          /\ successful_write_age' = 0
          /\ Touch({WriteStampAccess})
          /\ UNCHANGED <<sent, wire>>

\* write() from (i, j) up to its next await, its return or its raise
WriteRun(c, i, j, success) ==
  LET nxt == NextWrite(gatt, wbatch[c], i, j) IN
  /\ wi' = [wi EXCEPT ![c] = nxt.i]
  /\ wj' = [wj EXCEPT ![c] = nxt.j]
  /\ wsuccess' = [wsuccess EXCEPT ![c] = success]
  /\ IF nxt.tag = "hit"
       THEN \* _write_gatt: await client.write_gatt_char(uuid, bytez)
            /\ wpc' = [wpc EXCEPT ![c] = "write_gatt_char"]
            /\ sent' = [sent EXCEPT ![c] = Append(@, [i |-> nxt.i, j |-> nxt.j,
                                                      settled |-> wpc[c] # "write_gatt_char"])]
            /\ wire' = Append(wire, c)
            /\ Touch({})
            /\ UNCHANGED <<successful_write_age>>
     ELSE IF nxt.tag = "raise"
       THEN /\ wpc' = [wpc EXCEPT ![c] = "raised"]
            /\ Touch({})
            /\ UNCHANGED <<sent, wire, successful_write_age>>
     ELSE \* if successful_write: self._successful_write_time = datetime.now()
          /\ wpc' = [wpc EXCEPT ![c] = "returned"]
          /\ successful_write_age' = IF success THEN 0 ELSE successful_write_age
          /\ Touch(IF success THEN {WriteStampAccess} ELSE {})
          /\ UNCHANGED <<sent, wire>>

otherVarsOfSpec ==
  <<gatt, successful_notification_age, loopVars, pollVars, storeVars, spc, codecVars,
    lockVars>>

\* a task calls coordinator.write(actions); the calling tasks are
\* interchangeable, so they are numbered in the order of their calls
WriteCall(c, actions) ==
  /\ wpc[c] = "idle"
  /\ \A d \in Writers : d < c => wpc[d] # "idle"
  /\ wpc' = [wpc EXCEPT ![c] = "make_client"]
  /\ wbatch' = [wbatch EXCEPT ![c] = actions]
  /\ Touch({})
  /\ UNCHANGED <<client_connected, client_lock, wi, wj, wsuccess, sent, wire,
                 successful_write_age, otherVarsOfSpec>>

\* _make_client with a live session: the lock is taken and released at once
MakeClientLive(c) ==
  /\ wpc[c] = "make_client"
  /\ client_lock = 0
  /\ client_connected
  /\ WriteRun(c, 1, 1, FALSE)
  /\ UNCHANGED <<client_connected, client_lock, wbatch, otherVarsOfSpec>>

\* _make_client that does not take _client_lock
MakeClientEstablish_NoLock(c) ==
  /\ wpc[c] = "make_client"
  /\ ~client_connected
  /\ client_lock' = c
  /\ wpc' = [wpc EXCEPT ![c] = "establish_connection"]
  /\ Touch({})
  /\ UNCHANGED <<client_connected, wbatch, wi, wj, wsuccess, sent, wire,
                 successful_write_age, otherVarsOfSpec>>

\* _make_client without one: await establish_connection(...) under the lock
MakeClientEstablish(c) ==
  /\ wpc[c] = "make_client"
  /\ client_lock = 0
  /\ ~client_connected
  /\ client_lock' = c
  /\ wpc' = [wpc EXCEPT ![c] = "establish_connection"]
  /\ Touch({})
  /\ UNCHANGED <<client_connected, wbatch, wi, wj, wsuccess, sent, wire,
                 successful_write_age, otherVarsOfSpec>>

EstablishReturns(c) ==
  /\ wpc[c] = "establish_connection"
  /\ client_connected' = TRUE
  /\ client_lock' = 0
  /\ WriteRun(c, 1, 1, FALSE)
  /\ UNCHANGED <<wbatch, otherVarsOfSpec>>

EstablishRaises(c) ==
  /\ wpc[c] = "establish_connection"
  /\ client_lock' = 0
  /\ wpc' = [wpc EXCEPT ![c] = "raised"]
  /\ Touch({})
  /\ UNCHANGED <<client_connected, wbatch, wi, wj, wsuccess, sent, wire,
                 successful_write_age, otherVarsOfSpec>>

\* _write_gatt without its sleep: the next write is started as soon as
\* write_gatt_char returns
WriteGattCharReturns_NoSleep(c) ==
  /\ wpc[c] = "write_gatt_char"
  /\ WriteRun(c, wi[c], wj[c] + 1, TRUE)
  /\ UNCHANGED <<client_connected, client_lock, wbatch, otherVarsOfSpec>>

\* _write_gatt: write_gatt_char returned, await asyncio.sleep(0.1)
WriteGattCharReturns(c) ==
  /\ wpc[c] = "write_gatt_char"
  /\ wpc' = [wpc EXCEPT ![c] = "sleep"]
  /\ Touch({})
  /\ UNCHANGED <<client_connected, client_lock, wbatch, wi, wj, wsuccess, sent, wire,
                 successful_write_age, otherVarsOfSpec>>

\* a write() that answers a failed wire write by going on with the batch
WriteGattCharRaises_GoesOn(c, lost) ==
  /\ wpc[c] = "write_gatt_char"
  /\ client_connected' = (client_connected /\ ~lost)
  /\ WriteRun(c, wi[c], wj[c] + 1, wsuccess[c])
  /\ UNCHANGED <<client_lock, wbatch, otherVarsOfSpec>>

\* write_gatt_char raised: write() logs and re-raises; the session may be lost
WriteGattCharRaises(c, lost) ==
  /\ wpc[c] = "write_gatt_char"
  /\ wpc' = [wpc EXCEPT ![c] = "raised"]
  /\ client_connected' = (client_connected /\ ~lost)
  /\ Touch({})
  /\ UNCHANGED <<client_lock, wbatch, wi, wj, wsuccess, sent, wire,
                 successful_write_age, otherVarsOfSpec>>

\* the sleep is over: successful_write = True, then the loops go on
SleepReturns(c) ==
  /\ wpc[c] = "sleep"
  /\ WriteRun(c, wi[c], wj[c] + 1, TRUE)
  /\ UNCHANGED <<client_connected, client_lock, wbatch, otherVarsOfSpec>>

InitTime ==
  /\ successful_write_age = PastAge
  /\ successful_notification_age = PastAge

InitDispatcher ==
  /\ client_connected = FALSE
  /\ client_lock = 0
  /\ wpc = [c \in Writers |-> "idle"]
  /\ wbatch = [c \in Writers |-> <<>>]
  /\ wi = [c \in Writers |-> 1]
  /\ wj = [c \in Writers |-> 1]
  /\ wsuccess = [c \in Writers |-> FALSE]
  /\ sent = [c \in Writers |-> <<>>]
  /\ wire = <<>>

-----------------------------------------------------------------------------
(* taco_init.py: the reconciliation loop *)

\* timedelta(minutes=4) of _loop and timedelta(seconds=1) of setup_write_loop,
\* in seconds
HEARTBEAT == 240
TICK == 1

\* the age at which state's previous_write_time saturates
AgeCap == HEARTBEAT + TICK + 1

\* TacoRuntimeData.password
runtime_password == StrExtra(secret)

\* runtime data constructed with no zone initialized
InitialForceZoneOn_Uninitialized == <<None, None, None, None, None, None>>

\* TacoRuntimeData(...): force_zone_on = [False] * 6
InitialForceZoneOn == <<"False", "False", "False", "False", "False", "False">>

\* _create_write_requests with the command in front of the authorization
_create_write_requests_CommandFirst(zones) ==
  IF zones[1] = None THEN <<>>
  ELSE <<force_zone_on_request(zones), authorize(runtime_password)>>

_create_write_requests(zones) ==
  IF zones[1] = None THEN <<>>
  ELSE <<authorize(runtime_password), force_zone_on_request(zones)>>

\* state = {}
EmptyState == [keys |-> FALSE, previous_actions |-> <<>>, age |-> 0]

\* state.get(_PREVIOUS_ACTIONS_KEY, [])
PreviousActions(st) == IF st.keys THEN st.previous_actions ELSE <<>>

\* datetime.now() - state.get(_PREVIOUS_WRITE_TIME_KEY, datetime.now())
Elapsed(st) == IF st.keys THEN st.age ELSE 0

\* a heartbeat threshold of five minutes, the peripheral's own timeout
HeartbeatDue_FiveMinutes(st) == Elapsed(st) > HEARTBEAT + 60

\* the second test of _loop with >= for >
HeartbeatDue_AtThreshold(st) == Elapsed(st) >= HEARTBEAT

\* datetime.now() - previous_datetime > timedelta(minutes=4)
HeartbeatDue(st) == Elapsed(st) > HEARTBEAT

\* the first test of _loop
ActionsChanged(st, actions) == PreviousActions(st) # actions

\* the update of state that keeps the old previous_write_time
Stamp_KeepTime(st, actions) ==
  [keys |-> TRUE, previous_actions |-> actions, age |-> Elapsed(st)]

\* state[_PREVIOUS_ACTIONS_KEY] = actions
\* state[_PREVIOUS_WRITE_TIME_KEY] = datetime.now()
Stamp(st, actions) == [keys |-> TRUE, previous_actions |-> actions, age |-> 0]

\* one second later
OneTickLater(st) ==
  [st EXCEPT !.age = IF st.keys /\ st.age < AgeCap THEN st.age + TICK ELSE st.age]

\* a _loop body suspended in `await _send_write_requests(...)`: which of its
\* two sends it awaits, its local `actions`, and the sends it has issued so far
Task(pc, actions, sends) == [pc |-> pc, actions |-> actions, sends |-> sends]

\* the suspended bodies differ only in their locals, so `tasks` is a bag of them
InFlight == BagCardinality(tasks)

Event(kind, actions, previous, elapsed, submitted, heartbeat, stamped, failed) ==
  [kind |-> kind, actions |-> actions, previous_actions |-> previous,
   elapsed |-> elapsed, submitted |-> submitted, heartbeat |-> heartbeat,
   stamped |-> stamped, failed_before |-> failed]

NoEvent == Event("none", <<>>, <<>>, 0, FALSE, FALSE, FALSE, FALSE)

\* the zones whose switch is actuated
UserZones == {1}

otherVarsOfLoop ==
  <<gatt, dispVars, timeVars, pollVars, storeVars, spc, codecVars, lockVars, touched,
    pushed>>

\* switch._write_fn for SWITCH_TURN_ON and SWITCH_TURN_OFF: the switch of
\* zone `index` stores the new value in the runtime data
UserActuates(index, value) ==
  /\ force_zone_on' = [force_zone_on EXCEPT ![index] = value]
  /\ user_acted' = TRUE
  /\ ev' = Event("user", <<>>, <<>>, 0, FALSE, FALSE, FALSE, FALSE)
  /\ UNCHANGED <<state, tasks, failed_since, otherVarsOfLoop>>

\* the zones whose switch entity is followed: the first, and the last
ZoneSwitches == {1, 6}

\* switch._value_fn(data, index, runtime_data): an initialized zone is read
\* from the runtime data; an uninitialized one takes the flag `external` of
\* the force-zone status in data, if data has one (`known`)
ValueRead(index, known, external) ==
  /\ force_zone_on' = IF force_zone_on[index] # None \/ ~known THEN force_zone_on
                      ELSE [force_zone_on EXCEPT ![index] = external]
  /\ ev' = Event("value", <<>>, <<>>, index, FALSE, FALSE, FALSE, known)
  /\ UNCHANGED <<state, tasks, failed_since, user_acted, otherVarsOfLoop>>

\* async_track_time_interval fires _stateless_loop a second after the last
\* time, whether or not an earlier _loop is still awaiting its write; _loop
\* runs up to its first await or its return
TimerFires ==
  LET now_state == OneTickLater(state)
      actions == _create_write_requests(force_zone_on)
      changed == actions # <<>> /\ ActionsChanged(now_state, actions)
      heartbeat == actions # <<>> /\ ~changed /\ HeartbeatDue(now_state)
      submits == changed \/ heartbeat
  IN /\ submits => InFlight < MaxInFlight
     /\ state' = now_state
     /\ tasks' = IF submits
                   THEN tasks (+) SetToBag({Task(IF changed THEN "send_changed"
                                                            ELSE "send_heartbeat",
                                                 actions, 1)})
                 ELSE tasks
     /\ ev' = Event("tick", actions, PreviousActions(now_state), Elapsed(now_state),
                    submits, heartbeat, FALSE, failed_since)
     /\ UNCHANGED <<force_zone_on, failed_since, user_acted, otherVarsOfLoop>>

\* _send_write_requests returned to the suspended _loop body t:
\* success = True, then the rest of the body
SendReturns(t) ==
  LET again == t.pc = "send_changed" /\ HeartbeatDue(state)
      rest == tasks (-) SetToBag({t})
  IN /\ BagIn(t, tasks)
     /\ IF again
          THEN /\ tasks' = rest (+) SetToBag({Task("send_heartbeat", t.actions,
                                                   t.sends + 1)})
               /\ UNCHANGED <<state, failed_since>>
        ELSE /\ tasks' = rest
             /\ state' = Stamp(state, t.actions)
             /\ failed_since' = FALSE
     /\ ev' = Event("returned", t.actions, PreviousActions(state), Elapsed(state),
                    again, again, ~again, failed_since)
     /\ UNCHANGED <<force_zone_on, user_acted, otherVarsOfLoop>>

\* a _loop that records the batch although coordinator.write raised
SendRaises_Records(t) ==
  /\ BagIn(t, tasks)
  /\ tasks' = tasks (-) SetToBag({t})
  /\ failed_since' = TRUE
  /\ state' = Stamp(state, t.actions)
  /\ ev' = Event("raised", t.actions, PreviousActions(state), Elapsed(state), FALSE,
                 t.pc = "send_heartbeat", FALSE, failed_since)
  /\ UNCHANGED <<force_zone_on, user_acted, otherVarsOfLoop>>

\* coordinator.write raised: the exception leaves _loop before state is touched
SendRaises(t) ==
  /\ BagIn(t, tasks)
  /\ tasks' = tasks (-) SetToBag({t})
  /\ failed_since' = TRUE
  /\ ev' = Event("raised", t.actions, PreviousActions(state), Elapsed(state), FALSE,
                 t.pc = "send_heartbeat", FALSE, failed_since)
  /\ UNCHANGED <<force_zone_on, state, user_acted, otherVarsOfLoop>>

InitLoop ==
  /\ force_zone_on = InitialForceZoneOn
  /\ state = EmptyState
  /\ tasks = EmptyBag
  /\ failed_since = FALSE
  /\ user_acted = FALSE
  /\ ev = NoEvent

-----------------------------------------------------------------------------
(* ble_data_update_coordinator.py: setup and poll *)

\* a catalog with one characteristic for every combination of a property
\* list and a read action
PropertyShapes == << {READ}, {NOTIFY}, {READ, NOTIFY}, {WRITE}, {READ, WRITE} >>

ReadActions == {NOOP, INDEX, POLL, SUBSCRIBE, AFTER_WRITE, AFTER_NOTIFICATION}

shapes_gatt ==
  [k \in 1..(Len(PropertyShapes) * Cardinality(ReadActions)) |->
     Characteristic("shape",
                    PropertyShapes[((k - 1) \div Cardinality(ReadActions)) + 1],
                    ((k - 1) % Cardinality(ReadActions)) + 1,
                    "default", "default")]

\* poll_gatt_characteristics with a first clause that admits NOOP
PollCharacteristics_NoopOnFirst(g, is_first_poll, write_age, notification_age) ==
  { k \in 1..Len(g) :
      /\ READ \in g[k].properties
      /\ \/ is_first_poll
         \/ (g[k].read_action = AFTER_WRITE /\ write_age < DEFAULT_AFTER_WRITE_INTERVAL)
         \/ (g[k].read_action = AFTER_NOTIFICATION
             /\ notification_age < DEFAULT_AFTER_NOTIFICATION_INTERVAL)
         \/ g[k].read_action = POLL }

\* poll_gatt_characteristics without the POLL clause
PollCharacteristics_NoPoll(g, is_first_poll, write_age, notification_age) ==
  { k \in 1..Len(g) :
      /\ READ \in g[k].properties
      /\ \/ (g[k].read_action # NOOP /\ is_first_poll)
         \/ (g[k].read_action = AFTER_WRITE /\ write_age < DEFAULT_AFTER_WRITE_INTERVAL)
         \/ (g[k].read_action = AFTER_NOTIFICATION
             /\ notification_age < DEFAULT_AFTER_NOTIFICATION_INTERVAL) }

\* poll_gatt_characteristics with the first clause not tied to is_first_poll
PollCharacteristics_AlwaysFirst(g, is_first_poll, write_age, notification_age) ==
  { k \in 1..Len(g) :
      /\ READ \in g[k].properties
      /\ \/ g[k].read_action # NOOP
         \/ (g[k].read_action = AFTER_WRITE /\ write_age < DEFAULT_AFTER_WRITE_INTERVAL)
         \/ (g[k].read_action = AFTER_NOTIFICATION
             /\ notification_age < DEFAULT_AFTER_NOTIFICATION_INTERVAL)
         \/ g[k].read_action = POLL }

\* poll_gatt_characteristics with <= for < in the AFTER_WRITE clause
PollCharacteristics_WriteWindowInclusive(g, is_first_poll, write_age, notification_age) ==
  { k \in 1..Len(g) :
      /\ READ \in g[k].properties
      /\ \/ (g[k].read_action # NOOP /\ is_first_poll)
         \/ (g[k].read_action = AFTER_WRITE /\ write_age <= DEFAULT_AFTER_WRITE_INTERVAL)
         \/ (g[k].read_action = AFTER_NOTIFICATION
             /\ notification_age < DEFAULT_AFTER_NOTIFICATION_INTERVAL)
         \/ g[k].read_action = POLL }

\* poll_gatt_characteristics with the AFTER_NOTIFICATION clause not tied to the window
PollCharacteristics_NotifyAlways(g, is_first_poll, write_age, notification_age) ==
  { k \in 1..Len(g) :
      /\ READ \in g[k].properties
      /\ \/ (g[k].read_action # NOOP /\ is_first_poll)
         \/ (g[k].read_action = AFTER_WRITE /\ write_age < DEFAULT_AFTER_WRITE_INTERVAL)
         \/ g[k].read_action = AFTER_NOTIFICATION
         \/ g[k].read_action = POLL }

\* poll_gatt_characteristics of poll(), as indices into the catalog
PollCharacteristics(g, is_first_poll, write_age, notification_age) ==
  { k \in 1..Len(g) :
      /\ READ \in g[k].properties
      /\ \/ (g[k].read_action # NOOP /\ is_first_poll)
         \/ (g[k].read_action = AFTER_WRITE /\ write_age < DEFAULT_AFTER_WRITE_INTERVAL)
         \/ (g[k].read_action = AFTER_NOTIFICATION
             /\ notification_age < DEFAULT_AFTER_NOTIFICATION_INTERVAL)
         \/ g[k].read_action = POLL }

\* notification_gatt_characteristics of setup()
NotificationCharacteristics(g) ==
  { k \in 1..Len(g) : NOTIFY \in g[k].properties /\ g[k].read_action = SUBSCRIBE }

\* LocalGattReadResult("setup_timestamp", ...) of force_data_update
setup_timestamp == "setup_timestamp"

\* The key under which _consume_result stores the result of a read of the
\* characteristic.  The transforms name their keys themselves, one transform
\* one key, except read_network_diagnostic_data_transform whose key follows
\* the first two bytes; that transform's keys are taken as one.
ResultKey(characteristic) == characteristic.read_transform

\* The reads among `reads` whose transformed result passes the test of
\* _consume_result: the default transform (lambda a: a) returns the bytes,
\* which have no key and are rejected; read_network_diagnostic_data_transform
\* returns None for bytes it does not know (diag_known = FALSE).
Decodes(g, reads, diag_known) ==
  { k \in reads :
      /\ g[k].read_transform # "default"
      /\ g[k].read_transform = "read_network_diagnostic_data_transform" => diag_known }

\* _consume_result for each of the reads `done`
Consumed(g, done) == { ResultKey(g[k]) : k \in done }

\* what a call of the polling task returned: None, or the copy of _results
NoReturn == [tag |-> "none", keys |-> {}]
Snapshot(keys) == [tag |-> "snapshot", keys |-> keys]

\* positions of the polling task between two calls
Resting == {"idle", "returned", "raised_establish", "raised_subscribe", "raised_read"}

otherVarsOfPoll ==
  <<gatt, wpc, wbatch, wi, wj, wsuccess, sent, wire, loopVars, spc, codecVars, lockVars>>

\* poll(is_first_poll) that always goes on to its own reads
PollCall_NoResetup(is_first_poll) ==
  /\ ppc \in Resting
  /\ pfirst' = is_first_poll
  /\ pread' = {}
  /\ issued' = EmptyBag
  /\ decoded' = {}
  /\ pfault' = "none"
  /\ preturn' = NoReturn
  /\ ppc' = "poll_make_client" /\ pvia_setup' = FALSE /\ presetup' = FALSE
  /\ Touch({})
  /\ UNCHANGED <<results>>
  /\ UNCHANGED <<client_connected, client_lock, subscribed, late, timeVars, otherVarsOfPoll>>

\* poll(is_first_poll) up to its first await: a poll that is not the first and
\* finds no live session hands over to setup(), which starts with
\* force_data_update
PollCall(is_first_poll) ==
  /\ ppc \in Resting
  /\ pfirst' = is_first_poll
  /\ pread' = {}
  /\ issued' = EmptyBag
  /\ decoded' = {}
  /\ pfault' = "none"
  /\ preturn' = NoReturn
  /\ IF ~is_first_poll /\ ~client_connected
       THEN /\ ppc' = "setup_make_client" /\ pvia_setup' = TRUE /\ presetup' = TRUE
            /\ results' = results \cup {setup_timestamp}
            /\ Touch({ConsumeAccess})
     ELSE /\ ppc' = "poll_make_client" /\ pvia_setup' = FALSE /\ presetup' = FALSE
          /\ Touch({})
          /\ UNCHANGED <<results>>
  /\ UNCHANGED <<client_connected, client_lock, subscribed, late, timeVars, otherVarsOfPoll>>

\* setup() without its force_data_update
SetupCall_NoMarker ==
  /\ ppc \in Resting
  /\ ppc' = "setup_make_client"
  /\ pvia_setup' = TRUE
  /\ presetup' = FALSE
  /\ pfirst' = FALSE
  /\ pread' = {}
  /\ issued' = EmptyBag
  /\ decoded' = {}
  /\ pfault' = "none"
  /\ preturn' = NoReturn
  /\ Touch({})
  /\ UNCHANGED <<results>>
  /\ UNCHANGED <<client_connected, client_lock, subscribed, late, timeVars, otherVarsOfPoll>>

\* setup() called by the host: force_data_update, then _make_client
SetupCall ==
  /\ ppc \in Resting
  /\ ppc' = "setup_make_client"
  /\ pvia_setup' = TRUE
  /\ presetup' = FALSE
  /\ pfirst' = FALSE
  /\ pread' = {}
  /\ issued' = EmptyBag
  /\ decoded' = {}
  /\ pfault' = "none"
  /\ preturn' = NoReturn
  /\ results' = results \cup {setup_timestamp}
  /\ Touch({ConsumeAccess})
  /\ UNCHANGED <<client_connected, client_lock, subscribed, late, timeVars, otherVarsOfPoll>>

\* what follows _make_client: in setup() the subscriptions, in poll() one
\* _read_gatt for each characteristic of the read set
AfterMakeClient ==
  IF ppc \in {"setup_make_client", "setup_establish"}
    THEN /\ ppc' = "start_notify"
         /\ Touch({})
         /\ UNCHANGED <<pread, issued>>
  ELSE /\ ppc' = "gather"
       /\ pread' = PollCharacteristics(gatt, pfirst, successful_write_age,
                                       successful_notification_age)
       /\ issued' = issued (+) SetToBag(pread')
       /\ Touch(PolicyAccesses(gatt, pfirst))

\* _make_client with a live session
PollMakeClientLive ==
  /\ ppc \in {"setup_make_client", "poll_make_client"}
  /\ client_lock = 0
  /\ client_connected
  /\ AfterMakeClient
  /\ UNCHANGED <<client_connected, client_lock, pfirst, pvia_setup, pfault, preturn,
                 presetup, subscribed, late, results, decoded, timeVars, otherVarsOfPoll>>

\* _make_client without one: await establish_connection(...) under the lock
PollMakeClientEstablish ==
  /\ ppc \in {"setup_make_client", "poll_make_client"}
  /\ client_lock = 0
  /\ ~client_connected
  /\ client_lock' = NumWriters + 1
  /\ ppc' = IF ppc = "setup_make_client" THEN "setup_establish" ELSE "poll_establish"
  /\ Touch({})
  /\ UNCHANGED <<client_connected, pfirst, pread, pvia_setup, pfault, preturn, presetup,
                 subscribed, late, storeVars, timeVars, otherVarsOfPoll>>

PollEstablishReturns ==
  /\ ppc \in {"setup_establish", "poll_establish"}
  /\ client_connected' = TRUE
  /\ client_lock' = 0
  /\ AfterMakeClient
  /\ UNCHANGED <<pfirst, pvia_setup, pfault, preturn, presetup, subscribed, late, results,
                 decoded, timeVars, otherVarsOfPoll>>

\* establish_connection raised: `self.force_data_clear()` only creates the
\* coroutine, which is never awaited, so _results stays; then the re-raise
PollEstablishRaises ==
  /\ ppc \in {"setup_establish", "poll_establish"}
  /\ client_lock' = 0
  /\ ppc' = "raised_establish"
  /\ Touch({})
  /\ UNCHANGED <<client_connected, pfirst, pread, pvia_setup, pfault, preturn, presetup,
                 subscribed, late, storeVars, timeVars, otherVarsOfPoll>>

\* the gather of the start_notify calls returned: await self.poll(is_first_poll=True)
StartNotifyReturns ==
  /\ ppc = "start_notify"
  /\ subscribed' = IF client_connected THEN NotificationCharacteristics(gatt) ELSE {}
  /\ late' = late
  /\ pfirst' = TRUE
  /\ ppc' = "poll_make_client"
  /\ Touch({})
  /\ UNCHANGED <<client_connected, client_lock, pread, pvia_setup, pfault, preturn,
                 presetup, storeVars, timeVars, otherVarsOfPoll>>

\* a setup() that has its first poll's reads under way when a start_notify raises
StartNotifyRaises_ReadsIssued(lost) ==
  /\ ppc = "start_notify"
  /\ NotificationCharacteristics(gatt) # {}
  /\ ppc' = "raised_subscribe"
  /\ client_connected' = (client_connected /\ ~lost)
  /\ subscribed' = IF lost THEN {} ELSE subscribed
  /\ late' = IF lost THEN {} ELSE late
  /\ pread' = PollCharacteristics(gatt, TRUE, successful_write_age,
                                  successful_notification_age)
  /\ issued' = issued (+) SetToBag(pread')
  /\ Touch({})
  /\ UNCHANGED <<client_lock, pfirst, pvia_setup, pfault, preturn, presetup, results,
                 decoded, timeVars, otherVarsOfPoll>>

\* a start_notify raised: setup logs and re-raises; the session may be lost
StartNotifyRaises(lost) ==
  /\ ppc = "start_notify"
  /\ NotificationCharacteristics(gatt) # {}
  /\ ppc' = "raised_subscribe"
  /\ client_connected' = (client_connected /\ ~lost)
  /\ subscribed' = IF lost THEN {} ELSE subscribed
  /\ late' = IF lost THEN {} ELSE late
  /\ Touch({})
  /\ UNCHANGED <<client_lock, pfirst, pread, pvia_setup, pfault, preturn, presetup,
                 storeVars, timeVars, otherVarsOfPoll>>

\* poll() in which a read without a result keeps the other results from
\* being stored
GatherReturns_NoneDropsAll(diag_known) ==
  /\ ppc = "gather"
  /\ ppc' = "returned"
  /\ decoded' = IF Decodes(gatt, pread, diag_known) = Decodes(gatt, pread, TRUE)
                  THEN Decodes(gatt, pread, diag_known) ELSE {}
  /\ results' = results \cup Consumed(gatt, decoded')
  /\ Touch((IF decoded' = {} THEN {} ELSE {ConsumeAccess}) \cup {SnapshotAccess})
  /\ preturn' = IF pvia_setup THEN NoReturn ELSE Snapshot(results')
  /\ UNCHANGED <<client_connected, client_lock, pfirst, pread, pvia_setup, pfault,
                 presetup, subscribed, late, issued, timeVars, otherVarsOfPoll>>

\* the gather of the reads returned: every read was transformed and handed
\* to _consume_result; poll returns the snapshot
GatherReturns(diag_known) ==
  /\ ppc = "gather"
  /\ ppc' = "returned"
  /\ decoded' = Decodes(gatt, pread, diag_known)
  /\ results' = results \cup Consumed(gatt, decoded')
  /\ Touch((IF decoded' = {} THEN {} ELSE {ConsumeAccess}) \cup {SnapshotAccess})
  \* setup() discards what its poll returns and returns nothing itself
  /\ preturn' = IF pvia_setup THEN NoReturn ELSE Snapshot(results')
  /\ UNCHANGED <<client_connected, client_lock, pfirst, pread, pvia_setup, pfault,
                 presetup, subscribed, late, issued, timeVars, otherVarsOfPoll>>

\* a poll that answers a failed read by issuing the reads again
GatherRaises_Retry(failed, others_done, lost) ==
  /\ ppc = "gather"
  /\ failed \in pread
  /\ CopiesIn(failed, issued) < 2
  /\ issued' = issued (+) SetToBag(pread)
  /\ Touch({})
  /\ UNCHANGED <<ppc, client_connected, client_lock, pfirst, pread, pvia_setup, pfault,
                 preturn, presetup, subscribed, late, results, decoded, timeVars,
                 otherVarsOfPoll>>

\* the read of `failed` raised in read_gatt_char: gather raises, poll logs
\* and re-raises.  The other reads of the gather are tasks
\* of their own: either they had all been consumed by then or none had, and
\* the reads that had not are followed no further (GatherRaisesLeaving
\* follows them).
GatherRaises(failed, others_done, lost) ==
  /\ ppc = "gather"
  /\ failed \in pread
  /\ ppc' = "raised_read"
  /\ pfault' = "wire"
  /\ decoded' = IF others_done THEN Decodes(gatt, pread \ {failed}, TRUE) ELSE {}
  /\ results' = results \cup Consumed(gatt, decoded')
  /\ Touch(IF decoded' = {} THEN {} ELSE {ConsumeAccess})
  /\ client_connected' = (client_connected /\ ~lost)
  /\ subscribed' = IF lost THEN {} ELSE subscribed
  /\ late' = IF lost THEN {} ELSE late
  /\ UNCHANGED <<client_lock, pfirst, pread, pvia_setup, preturn, presetup, issued,
                 timeVars, otherVarsOfPoll>>

\* asyncio.gather without return_exceptions hands the first exception to
\* its awaiter and does not cancel the other awaitables: the reads `others`
\* stay in flight, here as the keys they will store
LeftInFlight(g, others) == Consumed(g, Decodes(g, others, TRUE))

\* the read of `failed` raised in read_gatt_char before any other read of the
\* gather was done: poll logs and re-raises, the other reads stay in flight.
\* A session that is lost takes the reads in flight with it.
GatherRaisesLeaving(failed, lost) ==
  /\ ppc = "gather"
  /\ failed \in pread
  /\ ppc' = "raised_read"
  /\ pfault' = "wire"
  /\ decoded' = {}
  /\ Touch({})
  /\ client_connected' = (client_connected /\ ~lost)
  /\ subscribed' = IF lost THEN {} ELSE subscribed
  /\ late' = IF lost THEN {} ELSE late \cup LeftInFlight(gatt, pread \ {failed})
  /\ UNCHANGED <<client_lock, pfirst, pread, pvia_setup, preturn, presetup, issued,
                 results, timeVars, otherVarsOfPoll>>

\* the transforms of the Taco catalog start with _assert_bytearray_len, which
\* raises ValueError for a frame that is too short; the default transform
\* (lambda a: a) takes any bytes
CanRaise(characteristic) == characteristic.read_transform # "default"

\* read_gatt_char of `failed` returned a frame its read_transform raises on:
\* the exception leaves _read_gatt and the gather, poll logs and re-raises.
\* The session is as it was.
TransformRaises(failed, others_done) ==
  /\ ppc = "gather"
  /\ failed \in pread
  /\ CanRaise(gatt[failed])
  /\ ppc' = "raised_read"
  /\ pfault' = "transform"
  /\ decoded' = IF others_done THEN Decodes(gatt, pread \ {failed}, TRUE) ELSE {}
  /\ results' = results \cup Consumed(gatt, decoded')
  /\ Touch(IF decoded' = {} THEN {} ELSE {ConsumeAccess})
  /\ UNCHANGED <<client_connected, client_lock, pfirst, pread, pvia_setup, preturn,
                 presetup, subscribed, late, issued, timeVars, otherVarsOfPoll>>

\* the reads a raised gather left in flight come back: each _read_gatt
\* transforms its bytes and awaits _consume_result, which stores the value
LateReadsReturn ==
  /\ client_connected
  /\ late # {}
  /\ results' = results \cup late
  /\ late' = {}
  /\ Touch({ConsumeAccess})
  /\ UNCHANGED <<client_connected, client_lock, ppc, pfirst, pread, pvia_setup,
                 presetup, subscribed, pfault, preturn, issued, decoded, timeVars,
                 otherVarsOfPoll>>

\* the peripheral drops the session
ConnectionLost ==
  /\ client_connected
  /\ client_connected' = FALSE
  /\ subscribed' = {}
  /\ late' = {}
  /\ Touch({})
  /\ UNCHANGED <<client_lock, ppc, pfirst, pread, pvia_setup, pfault, preturn, presetup,
                 storeVars, timeVars, otherVarsOfPoll>>

\* a subscribed characteristic pushes a value that its transform decodes:
\* _consume_result(result, is_from_notification=True) sets
\* _successful_notification_time and stores the result
Notification(k) ==
  /\ client_connected
  /\ k \in subscribed
  /\ Decodes(gatt, {k}, TRUE) = {k}
  /\ successful_notification_age' = 0
  /\ results' = results \cup Consumed(gatt, {k})
  /\ touched' = {NotificationStampAccess, ConsumeAccess}
  /\ pushed' = Pushed(k, "stored")
  /\ UNCHANGED <<successful_write_age, client_connected, client_lock, pollVars,
                 issued, decoded, otherVarsOfPoll>>

\* the outcomes of handle_notification that store nothing: read_transform
\* raised (the Taco transforms, on a frame shorter than they assert), or it
\* returned something without key and value (the default transform returns
\* the bytes), which _consume_result rejects with a warning
DropOutcomes(characteristic) ==
  (IF CanRaise(characteristic) THEN {"raised"} ELSE {})
  \cup (IF characteristic.read_transform = "default" THEN {"rejected"} ELSE {})

\* a handle_notification that stamps the time of every delivery
NotificationDropped_Stamps(k, outcome) ==
  /\ client_connected
  /\ k \in subscribed
  /\ outcome \in DropOutcomes(gatt[k])
  /\ successful_notification_age' = 0
  /\ touched' = {NotificationStampAccess}
  /\ pushed' = Pushed(k, outcome)
  /\ UNCHANGED <<successful_write_age, client_connected, client_lock, pollVars,
                 storeVars, otherVarsOfPoll>>

\* a subscribed characteristic pushes a value that is not stored: the
\* exception leaves handle_notification before _consume_result is called, or
\* _consume_result returns before it sets _successful_notification_time
NotificationDropped(k, outcome) ==
  /\ client_connected
  /\ k \in subscribed
  /\ outcome \in DropOutcomes(gatt[k])
  /\ touched' = {}
  /\ pushed' = Pushed(k, outcome)
  /\ UNCHANGED <<timeVars, client_connected, client_lock, pollVars,
                 storeVars, otherVarsOfPoll>>

\* a write() call that wrote at least once returns (see WriteRun)
WriteStamped ==
  /\ client_connected
  /\ successful_write_age' = 0
  /\ Touch({WriteStampAccess})
  /\ UNCHANGED <<successful_notification_age, client_connected, client_lock, pollVars,
                 storeVars, otherVarsOfPoll>>

\* a write() call finds no live session: its _make_client establishes one
\* (see MakeClientEstablish and EstablishReturns).  write() registers no
\* handler, and the new client object has none.
WriteEstablished ==
  /\ ~client_connected
  /\ client_lock = 0
  /\ client_connected' = TRUE
  /\ Touch({})
  /\ UNCHANGED <<client_lock, pollVars, storeVars, timeVars, otherVarsOfPoll>>

Older(age) == IF age < PastAge THEN age + 1 ELSE age

\* a second passes
SecondPasses ==
  /\ successful_write_age < PastAge \/ successful_notification_age < PastAge
  /\ successful_write_age' = Older(successful_write_age)
  /\ successful_notification_age' = Older(successful_notification_age)
  /\ Touch({})
  /\ UNCHANGED <<client_connected, client_lock, pollVars, storeVars, otherVarsOfPoll>>

InitPoll ==
  /\ ppc = "idle"
  /\ pfirst = FALSE
  /\ pread = {}
  /\ pvia_setup = FALSE
  /\ presetup = FALSE
  /\ pfault = "none"
  /\ preturn = NoReturn
  /\ subscribed = {}
  /\ late = {}
  /\ results = {}
  /\ issued = EmptyBag
  /\ decoded = {}
  /\ spc = "idle"

-----------------------------------------------------------------------------
(* ble_data_update_coordinator.py: shutdown *)

otherVarsOfShutdown ==
  <<gatt, wpc, wbatch, wi, wj, wsuccess, sent, wire, loopVars, timeVars,
    ppc, pfirst, pread, pvia_setup, pfault, preturn, presetup, issued, decoded,
    codecVars, lockVars>>

\* force_data_clear, awaited: the lock of _results is never held across an
\* await, so the clearing does not suspend
force_data_clear == {}

\* shutdown() with _client_lock in hand: without a live session the lock is
\* released at once and the results are cleared; with one,
\* await self._client.disconnect() under the lock
ShutdownLocked ==
  IF client_connected
    THEN /\ client_lock' = NumWriters + 2
         /\ spc' = "disconnect"
         /\ Touch({})
         /\ UNCHANGED <<client_connected, subscribed, late, results>>
  ELSE /\ results' = force_data_clear
       /\ Touch({ClearAccess})
       /\ spc' = "returned"
       /\ UNCHANGED <<client_connected, client_lock, subscribed, late>>

\* the host calls shutdown(): it waits for _client_lock when that is taken
ShutdownCall ==
  /\ spc \in {"idle", "returned", "raised"}
  /\ IF client_lock # 0
       THEN /\ spc' = "lock"
            /\ Touch({})
            /\ UNCHANGED <<client_connected, client_lock, subscribed, late, results>>
     ELSE ShutdownLocked
  /\ UNCHANGED otherVarsOfShutdown

\* the waiting shutdown() gets _client_lock
ShutdownAcquires ==
  /\ spc = "lock"
  /\ client_lock = 0
  /\ ShutdownLocked
  /\ UNCHANGED otherVarsOfShutdown

\* disconnect() returned, and shutdown() leaves the results as they are
DisconnectReturns_NoClear ==
  /\ spc = "disconnect"
  /\ client_connected' = FALSE
  /\ subscribed' = {}
  /\ late' = {}
  /\ client_lock' = 0
  /\ spc' = "returned"
  /\ Touch({})
  /\ UNCHANGED <<results, otherVarsOfShutdown>>

\* disconnect() returned: the lock is released, then await self.force_data_clear()
DisconnectReturns ==
  /\ spc = "disconnect"
  /\ client_connected' = FALSE
  /\ subscribed' = {}
  /\ late' = {}
  /\ client_lock' = 0
  /\ results' = force_data_clear
  /\ Touch({ClearAccess})
  /\ spc' = "returned"
  /\ UNCHANGED otherVarsOfShutdown

\* disconnect() raised: the lock is released and the exception leaves shutdown()
DisconnectRaises(lost) ==
  /\ spc = "disconnect"
  /\ client_lock' = 0
  /\ client_connected' = (client_connected /\ ~lost)
  /\ subscribed' = IF lost THEN {} ELSE subscribed
  /\ late' = IF lost THEN {} ELSE late
  /\ spc' = "raised"
  /\ Touch({})
  /\ UNCHANGED <<results, otherVarsOfShutdown>>

-----------------------------------------------------------------------------
(* taco_gatt_read_transform.py and the way of the zone flags through both
   transforms *)

\* the length _assert_bytearray_len asks of a diagnostic frame
MinFrameLen == 20

RECURSIVE BitAnd(_, _)
BitAnd(a, b) ==
  IF a = 0 \/ b = 0 THEN 0
  ELSE (IF (a % 2 = 1) /\ (b % 2 = 1) THEN 1 ELSE 0) + 2 * BitAnd(a \div 2, b \div 2)

\* (byte & target) == target
_is_byte_match(byte, target) == BitAnd(byte, target) = target

\* results of a read transform: a ReadResult, None, or the ValueError of
\* _assert_bytearray_len
ReadResult(key, value) == [tag |-> "result", key |-> key, value |-> value]
NoResult == [tag |-> "none", key |-> "", value |-> <<>>]
ValueError == [tag |-> "raise", key |-> "", value |-> <<>>]

NETWORK_DIAGNOSTIC_FORCE_ZONE_STATUS == "network_diagnostic_force_zone_status"

\* Python's bool as the model writes it
PyBool(b) == IF b THEN "True" ELSE "False"

\* ZoneInfo(zone1, ..., zone6) read from the bits of `byte`
ZonesOfByte(byte) ==
  [n \in 1..Len(BYTE_BY_ZONE) |-> PyBool(_is_byte_match(byte, BYTE_BY_ZONE[n]))]

\* read_network_diagnostic_data_transform that takes the zones from bytez[2]
read_network_diagnostic_data_transform_WrongByte(bytez) ==
  IF Len(bytez) < MinFrameLen THEN ValueError
  ELSE IF bytez[1] = 0 /\ bytez[2] = 0
    THEN ReadResult("empty_network_diagnostic_data", "noop")
  ELSE IF bytez[1] = 1 /\ bytez[2] = 0
    THEN ReadResult("network_diagnostic_onboard_inputs", "TODO")
  ELSE IF bytez[1] = 4 /\ bytez[2] = 0
    THEN ReadResult("network_diagnostic_daughter_card", "TODO")
  ELSE IF bytez[1] = 16 /\ bytez[2] = 0
    THEN ReadResult("network_diagnostic_operating_mode", "TODO")
  ELSE IF bytez[1] = 0 /\ bytez[2] = 16
    THEN ReadResult(NETWORK_DIAGNOSTIC_FORCE_ZONE_STATUS, ZonesOfByte(bytez[3]))
  ELSE IF bytez[1] = 0 /\ bytez[2] = 32
    THEN ReadResult("network_diagnostic_last_exception", bytez)
  ELSE NoResult

\* read_network_diagnostic_data_transform that tests the first byte alone
read_network_diagnostic_data_transform_FirstByteOnly(bytez) ==
  IF Len(bytez) < MinFrameLen THEN ValueError
  ELSE IF bytez[1] = 1
    THEN ReadResult("network_diagnostic_onboard_inputs", "TODO")
  ELSE IF bytez[1] = 4
    THEN ReadResult("network_diagnostic_daughter_card", "TODO")
  ELSE IF bytez[1] = 16
    THEN ReadResult("network_diagnostic_operating_mode", "TODO")
  ELSE IF bytez[1] = 0 /\ bytez[2] = 16
    THEN ReadResult(NETWORK_DIAGNOSTIC_FORCE_ZONE_STATUS, ZonesOfByte(bytez[4]))
  ELSE IF bytez[1] = 0 /\ bytez[2] = 32
    THEN ReadResult("network_diagnostic_last_exception", bytez)
  ELSE IF bytez[1] = 0
    THEN ReadResult("empty_network_diagnostic_data", "noop")
  ELSE NoResult

\* read_network_diagnostic_data_transform; bytez[n] of the source is
\* bytez[n + 1] here
read_network_diagnostic_data_transform(bytez) ==
  IF Len(bytez) < MinFrameLen THEN ValueError
  ELSE IF bytez[1] = 0 /\ bytez[2] = 0
    THEN ReadResult("empty_network_diagnostic_data", "noop")
  ELSE IF bytez[1] = 1 /\ bytez[2] = 0
    THEN ReadResult("network_diagnostic_onboard_inputs", "TODO")
  ELSE IF bytez[1] = 4 /\ bytez[2] = 0
    THEN ReadResult("network_diagnostic_daughter_card", "TODO")
  ELSE IF bytez[1] = 16 /\ bytez[2] = 0
    THEN ReadResult("network_diagnostic_operating_mode", "TODO")
  ELSE IF bytez[1] = 0 /\ bytez[2] = 16
    THEN ReadResult(NETWORK_DIAGNOSTIC_FORCE_ZONE_STATUS, ZonesOfByte(bytez[4]))
  ELSE IF bytez[1] = 0 /\ bytez[2] = 32
    THEN ReadResult("network_diagnostic_last_exception", bytez)
  ELSE NoResult

\* every ZoneInfo of six bools
ZoneAssignments == [1..Len(BYTE_BY_ZONE) -> {"True", "False"}]

\* a frame of `length` bytes that starts with b0, b1 and carries b3 as its
\* fourth byte, the others being `fill`
Frame(length, b0, b1, b3, fill) ==
  [k \in 1..length |-> IF k = 1 THEN b0
                       ELSE IF k = 2 THEN b1
                       ELSE IF k = 4 THEN b3
                       ELSE fill]

otherVarsOfCodec ==
  <<gatt, dispVars, timeVars, loopVars, pollVars, storeVars, spc, lockVars, touched,
    pushed>>

\* characteristic.write_transform(FORCE_ZONE_ON, zones_in) of networkDiagnosticMode
EncodeZones ==
  /\ cpc = "input"
  /\ wframe' = write_network_diagnostic_mode_transform(FORCE_ZONE_ON,
                                                         ZoneExtra(zones_in)).bytes
  /\ cpc' = "written"
  /\ UNCHANGED <<zones_in, rframe, rresult, otherVarsOfCodec>>

\* the peripheral answers a read of networkDiagnosticData with a frame that
\* carries the zone byte it was sent
PeripheralAnswers(length, b0, b1, fill) ==
  /\ cpc = "written"
  /\ rframe' = Frame(length, b0, b1, wframe[4], fill)
  /\ cpc' = "read"
  /\ UNCHANGED <<zones_in, wframe, rresult, otherVarsOfCodec>>

\* characteristic.read_transform(bytez) of networkDiagnosticData
DecodeFrame ==
  /\ cpc = "read"
  /\ rresult' = read_network_diagnostic_data_transform(rframe)
  /\ cpc' = "decoded"
  /\ UNCHANGED <<zones_in, wframe, rframe, otherVarsOfCodec>>

InitCodec ==
  /\ cpc = "input"
  /\ zones_in = InitialForceZoneOn
  /\ wframe = <<>>
  /\ rframe = <<>>
  /\ rresult = NoResult
  /\ touched = {}
  /\ pushed = NoPush

-----------------------------------------------------------------------------
(* ble_data_update_coordinator.py: the two locks.  Every method is reduced
   to its acquisitions and releases of _client_lock and _results_lock and to
   the awaits it makes while it holds one; taking and releasing a lock are
   steps of their own, so that every interleaving of the holders is there. *)

\* the tasks: a caller of write(), the host's task that calls setup() and
\* poll(), the host's task that calls shutdown(), and the notification
\* callback.  The callers of write() all do the same with the locks, so one
\* of them stands for all.
Writer == 1
Poller == NumWriters + 1
Stopper == NumWriters + 2
Notifier == NumWriters + 3
LockTasks == {Writer, Poller, Stopper, Notifier}

\* positions in which a task waits for `async with self._client_lock`
WantsClientLock(t) == lpc[t] = "want_client"

\* positions in which a task waits for `async with self._results_lock`
WantsResultsLock(t) ==
  lpc[t] \in {"marker_want", "consume_want", "snapshot_want", "clear_want"}

otherVarsOfLocks ==
  <<gatt, wpc, wbatch, wi, wj, wsuccess, sent, wire, timeVars, loopVars, pollVars,
    storeVars, spc, codecVars, touched, pushed>>

\* a method is called: write() and poll() start with _make_client, setup()
\* with force_data_update, shutdown() with _client_lock, and a notification
\* with _consume_result
LockCall(t, via_setup) ==
  /\ lpc[t] = "idle"
  /\ t = Notifier => client_connected
  /\ lpc' = [lpc EXCEPT ![t] = IF t = Notifier THEN "consume_want"
                               ELSE IF t = Poller /\ via_setup THEN "marker_want"
                               ELSE "want_client"]
  /\ UNCHANGED <<client_connected, client_lock, results_lock, otherVarsOfLocks>>

\* async with self._results_lock: the lock is free and the task takes it
TakeResultsLock(t) ==
  /\ WantsResultsLock(t)
  /\ results_lock = 0
  /\ results_lock' = t
  /\ lpc' = [lpc EXCEPT ![t] = IF lpc[t] = "marker_want" THEN "marker_has"
                               ELSE IF lpc[t] = "consume_want" THEN "consume_has"
                               ELSE IF lpc[t] = "snapshot_want" THEN "snapshot_has"
                               ELSE "clear_has"]
  /\ UNCHANGED <<client_connected, client_lock, otherVarsOfLocks>>

\* the end of the `async with self._results_lock` block: after
\* force_data_update setup() goes to _make_client, after its reads poll()
\* goes to the snapshot, everything else returns
ReleaseResultsLock(t) ==
  /\ results_lock = t
  /\ results_lock' = 0
  /\ lpc' = [lpc EXCEPT ![t] = IF lpc[t] = "marker_has" THEN "want_client"
                               ELSE IF lpc[t] = "consume_has" /\ t = Poller
                                 THEN "snapshot_want"
                               ELSE "idle"]
  /\ UNCHANGED <<client_connected, client_lock, otherVarsOfLocks>>

\* what a task does once _make_client has returned: write() its wire writes
\* and setup() its subscriptions, which take no lock, poll() its reads
AfterClientLock(t) == IF t = Poller THEN "consume_want" ELSE "idle"

\* async with self._client_lock: the lock is free and the task takes it.
\* _make_client with a live session and shutdown() without one leave the
\* block at once; the others await a wire operation inside it.
TakeClientLock(t) ==
  /\ WantsClientLock(t)
  /\ client_lock = 0
  /\ IF t = Stopper
       THEN IF client_connected
              THEN /\ client_lock' = t
                   /\ lpc' = [lpc EXCEPT ![t] = "disconnect"]
            ELSE /\ lpc' = [lpc EXCEPT ![t] = "clear_want"]
                 /\ UNCHANGED client_lock
     ELSE IF client_connected
            THEN /\ lpc' = [lpc EXCEPT ![t] = AfterClientLock(t)]
                 /\ UNCHANGED client_lock
          ELSE /\ client_lock' = t
               /\ lpc' = [lpc EXCEPT ![t] = "establish"]
  /\ UNCHANGED <<client_connected, results_lock, otherVarsOfLocks>>

\* establish_connection or disconnect returned: the block ends, the lock is
\* released; shutdown() goes on to force_data_clear
WireReturns(t) ==
  /\ client_lock = t
  /\ client_lock' = 0
  /\ client_connected' = (lpc[t] = "establish")
  /\ lpc' = [lpc EXCEPT ![t] = IF lpc[t] = "establish" THEN AfterClientLock(t)
                               ELSE "clear_want"]
  /\ UNCHANGED <<results_lock, otherVarsOfLocks>>

\* the wire operation raised and the task keeps the lock
WireRaises_KeepsLock(t) ==
  /\ client_lock = t
  /\ lpc' = [lpc EXCEPT ![t] = "idle"]
  /\ UNCHANGED <<client_connected, client_lock, results_lock, otherVarsOfLocks>>

\* establish_connection or disconnect raised: the exception leaves the
\* `async with`, which releases the lock, and then the method; the
\* force_data_clear() of _make_client's except block is not awaited and
\* takes no lock
WireRaises(t) ==
  /\ client_lock = t
  /\ client_lock' = 0
  /\ lpc' = [lpc EXCEPT ![t] = "idle"]
  /\ UNCHANGED <<client_connected, results_lock, otherVarsOfLocks>>

\* the peripheral drops the session
LinkLost ==
  /\ client_connected
  /\ client_connected' = FALSE
  /\ UNCHANGED <<client_lock, lockVars, otherVarsOfLocks>>

InitLocks ==
  /\ lpc = [t \in LockTasks |-> "idle"]
  /\ results_lock = 0

-----------------------------------------------------------------------------
(* The specifications *)

Init ==
  /\ gatt = taco_gatt
  /\ InitDispatcher /\ InitTime /\ InitLoop /\ InitPoll /\ InitCodec /\ InitLocks

Next ==
  \/ \E c \in Writers, actions \in WriteBatches : WriteCall(c, actions)
  \/ \E c \in Writers : MakeClientLive(c)
  \/ \E c \in Writers : MakeClientEstablish(c)
  \/ \E c \in Writers : EstablishReturns(c)
  \/ \E c \in Writers : EstablishRaises(c)
  \/ \E c \in Writers : WriteGattCharReturns(c)
  \/ \E c \in Writers, lost \in BOOLEAN : WriteGattCharRaises(c, lost)
  \/ \E c \in Writers : SleepReturns(c)

Spec == Init /\ [][Next]_vars

InitOfLoop ==
  /\ gatt = taco_gatt
  /\ InitDispatcher /\ InitTime /\ InitLoop /\ InitPoll /\ InitCodec /\ InitLocks

NextOfLoop ==
  \/ \E index \in UserZones, value \in {"True", "False"} : UserActuates(index, value)
  \/ TimerFires
  \/ \E t \in BagToSet(tasks) : SendReturns(t)
  \/ \E t \in BagToSet(tasks) : SendRaises(t)

SpecLoop == InitOfLoop /\ [][NextOfLoop]_vars

\* the switches of ZoneSwitches and the loop whose writes all fail, so that
\* state stays empty and every tick submits the batch it computes
NextOfZones ==
  \/ \E index \in ZoneSwitches, value \in {"True", "False"} : UserActuates(index, value)
  \/ \E index \in ZoneSwitches, known \in BOOLEAN, external \in {"True", "False"} :
       ValueRead(index, known, external)
  \/ TimerFires
  \/ \E t \in BagToSet(tasks) : SendRaises(t)

SpecZones == InitOfLoop /\ [][NextOfZones]_vars

InitOfPoll ==
  /\ gatt \in {taco_gatt, shapes_gatt}
  /\ InitDispatcher /\ InitTime /\ InitLoop /\ InitPoll /\ InitCodec /\ InitLocks

NextOfPoll ==
  \/ \E is_first_poll \in BOOLEAN : PollCall(is_first_poll)
  \/ SetupCall
  \/ PollMakeClientLive
  \/ PollMakeClientEstablish
  \/ PollEstablishReturns
  \/ PollEstablishRaises
  \/ StartNotifyReturns
  \/ \E lost \in BOOLEAN : StartNotifyRaises(lost)
  \/ \E diag_known \in BOOLEAN : GatherReturns(diag_known)
  \/ \E failed \in pread, others_done \in BOOLEAN, lost \in BOOLEAN :
       GatherRaises(failed, others_done, lost)
  \/ \E failed \in pread, others_done \in BOOLEAN : TransformRaises(failed, others_done)
  \/ ConnectionLost
  \/ \E k \in subscribed : Notification(k)
  \/ \E k \in subscribed, outcome \in {"raised", "rejected"} :
       NotificationDropped(k, outcome)
  \/ WriteStamped
  \/ WriteEstablished
  \/ SecondPasses

SpecPoll == InitOfPoll /\ [][NextOfPoll]_vars

InitOfStragglers ==
  /\ gatt = taco_gatt
  /\ InitDispatcher /\ InitTime /\ InitLoop /\ InitPoll /\ InitCodec /\ InitLocks

\* the polling task with the reads a raised gather leaves behind; the passing
\* of time is left out
NextOfStragglers ==
  \/ \E is_first_poll \in BOOLEAN : PollCall(is_first_poll)
  \/ SetupCall
  \/ PollMakeClientLive
  \/ PollMakeClientEstablish
  \/ PollEstablishReturns
  \/ PollEstablishRaises
  \/ StartNotifyReturns
  \/ \E lost \in BOOLEAN : StartNotifyRaises(lost)
  \/ \E diag_known \in BOOLEAN : GatherReturns(diag_known)
  \/ \E failed \in pread, lost \in BOOLEAN : GatherRaisesLeaving(failed, lost)
  \/ LateReadsReturn
  \/ ConnectionLost
  \/ \E k \in subscribed : Notification(k)

SpecStragglers == InitOfStragglers /\ [][NextOfStragglers]_vars

InitOfSession ==
  /\ gatt = taco_gatt
  /\ InitDispatcher /\ InitTime /\ InitLoop /\ InitPoll /\ InitCodec /\ InitLocks

\* the passing of time is left out: shutdown() reads no timestamp
NextOfSession ==
  \/ \E is_first_poll \in BOOLEAN : PollCall(is_first_poll)
  \/ SetupCall
  \/ PollMakeClientLive
  \/ PollMakeClientEstablish
  \/ PollEstablishReturns
  \/ PollEstablishRaises
  \/ StartNotifyReturns
  \/ \E lost \in BOOLEAN : StartNotifyRaises(lost)
  \/ \E diag_known \in BOOLEAN : GatherReturns(diag_known)
  \/ \E failed \in pread, others_done \in BOOLEAN, lost \in BOOLEAN :
       GatherRaises(failed, others_done, lost)
  \/ \E failed \in pread, others_done \in BOOLEAN : TransformRaises(failed, others_done)
  \/ ConnectionLost
  \/ \E k \in subscribed : Notification(k)
  \/ \E k \in subscribed, outcome \in {"raised", "rejected"} :
       NotificationDropped(k, outcome)
  \/ ShutdownCall
  \/ ShutdownAcquires
  \/ DisconnectReturns
  \/ \E lost \in BOOLEAN : DisconnectRaises(lost)

SpecSession == InitOfSession /\ [][NextOfSession]_vars

InitOfCodec ==
  /\ gatt = taco_gatt
  /\ InitDispatcher /\ InitTime /\ InitLoop /\ InitPoll /\ InitLocks
  /\ cpc = "input"
  /\ zones_in \in ZoneAssignments
  /\ wframe = <<>>
  /\ rframe = <<>>
  /\ rresult = NoResult
  /\ touched = {}
  /\ pushed = NoPush

NextOfCodec ==
  \/ EncodeZones
  \/ \E length \in {MinFrameLen - 1, MinFrameLen}, b0 \in {0, 1, 3, 4, 16},
        b1 \in {0, 16, 32}, fill \in {0, 255} : PeripheralAnswers(length, b0, b1, fill)
  \/ DecodeFrame

SpecCodec == InitOfCodec /\ [][NextOfCodec]_vars

InitOfLocks ==
  /\ gatt = taco_gatt
  /\ InitDispatcher /\ InitTime /\ InitLoop /\ InitPoll /\ InitCodec /\ InitLocks

NextOfLocks ==
  \/ \E t \in LockTasks, via_setup \in BOOLEAN : LockCall(t, via_setup)
  \/ \E t \in LockTasks : TakeResultsLock(t)
  \/ \E t \in LockTasks : ReleaseResultsLock(t)
  \/ \E t \in LockTasks : TakeClientLock(t)
  \/ \E t \in LockTasks : WireReturns(t)
  \/ \E t \in LockTasks : WireRaises(t)
  \/ LinkLost

\* asyncio.Lock wakes its waiters in the order they came, so a task that
\* waits is not passed over for ever; a task that holds _results_lock runs on
\* to the end of the block; and the wire operations come to an end
FairnessOfLocks ==
  /\ \A t \in LockTasks : SF_vars(TakeResultsLock(t))
  /\ \A t \in LockTasks : SF_vars(TakeClientLock(t))
  /\ \A t \in LockTasks : WF_vars(ReleaseResultsLock(t))
  /\ \A t \in LockTasks : WF_vars(WireReturns(t) \/ WireRaises(t))

SpecLocks == InitOfLocks /\ [][NextOfLocks]_vars /\ FairnessOfLocks

InitOfCatalogs ==
  /\ gatt \in WriteCatalogs
  /\ InitDispatcher /\ InitTime /\ InitLoop /\ InitPoll /\ InitCodec /\ InitLocks

\* one task calls write() once; no session is live before the call
NextOfCatalogs ==
  \/ \E actions \in WriteBatches : WriteCall(Writer, actions)
  \/ MakeClientEstablish(Writer)
  \/ EstablishReturns(Writer)
  \/ EstablishRaises(Writer)
  \/ WriteGattCharReturns(Writer)
  \/ \E lost \in BOOLEAN : WriteGattCharRaises(Writer, lost)
  \/ SleepReturns(Writer)

SpecCatalogs == InitOfCatalogs /\ [][NextOfCatalogs]_vars

-----------------------------------------------------------------------------
(* Properties of the write dispatcher, under Spec *)

\* C1: within one write(batch) call the wire writes are emitted in the order
\* of the intents of the batch, one at a time: every wire write is issued
\* only after the settle delay of the call's previous wire write is over, and
\* while a wire write or its settle delay is pending the call has not gone
\* beyond that intent.  With the Taco catalog the batch
\* [authorize, force_zone_on] gives exactly two wire writes, the password
\* first and the force-zone command second.
C1_WritesInBatchOrder ==
  \A c \in Writers :
    /\ \A k \in 1..Len(sent[c]) : sent[c][k].settled
    /\ \A k \in 1..(Len(sent[c]) - 1) :
         Before(sent[c][k].i, sent[c][k].j, sent[c][k + 1].i, sent[c][k + 1].j)
    /\ wpc[c] \in {"write_gatt_char", "sleep"} =>
         /\ sent[c] # <<>>
         /\ sent[c][Len(sent[c])].i = wi[c]
         /\ sent[c][Len(sent[c])].j = wj[c]
    /\ (gatt = taco_gatt /\ wbatch[c] = AuthForceBatch /\ wpc[c] = "returned") =>
         /\ Len(sent[c]) = 2
         /\ sent[c][1].i = 1 /\ gatt[sent[c][1].j].name = "password"
         /\ sent[c][2].i = 2 /\ gatt[sent[c][2].j].name = "networkDiagnosticMode"

\* a call with the batch [authorize, force_zone_on] has returned while another
\* call was writing too
C1_Witness ==
  \E c \in Writers :
    /\ gatt = taco_gatt
    /\ wbatch[c] = AuthForceBatch
    /\ wpc[c] = "returned"
    /\ Len(sent[c]) = 2
    /\ Len(wire) > 2
    /\ successful_write_age = 0

\* C2: two concurrent write() calls never interleave their wire writes: no
\* wire write of another call lies between two wire writes of one call.
C2_NoInterleavedWrites ==
  \A a \in 1..Len(wire), b \in 1..Len(wire), k \in 1..Len(wire) :
    (a < b /\ b < k /\ wire[a] = wire[k]) => wire[b] = wire[a]

-----------------------------------------------------------------------------
(* Properties of the reconciliation loop, under SpecLoop *)

\* C3: on a tick where the computed batch equals the previously sent batch
\* and the time since the last successful send does not exceed the heartbeat
\* threshold, nothing is submitted and the previously sent batch and its
\* timestamp stay as they are.
C3_NoResendBeforeThreshold ==
  [][ ( /\ ev'.kind = "tick"
        /\ _create_write_requests(force_zone_on) = PreviousActions(state)
        /\ Elapsed(OneTickLater(state)) <= HEARTBEAT )
      => ( /\ tasks' = tasks
           /\ state'.keys = state.keys
           /\ state'.previous_actions = state.previous_actions
           /\ state' = OneTickLater(state) ) ]_vars

\* a tick exactly at the threshold, with an unchanged batch, that sent nothing
C3_Witness ==
  /\ ev.kind = "tick"
  /\ ev.actions # <<>>
  /\ ev.actions = ev.previous_actions
  /\ ev.elapsed = HEARTBEAT
  /\ ~ev.submitted
  /\ InFlight = 0

\* C4: one tick submits the desired batch to the dispatcher at most once.
C4_AtMostOneSendPerTick == \A t \in BagToSet(tasks) : t.sends <= 1

\* C5: the first tick after the desired state changed submits the new batch;
\* when the tick's body completes, that batch is recorded as previously sent
\* with a fresh timestamp; and a heartbeat resend is only started when more
\* than the threshold has passed since the recorded time.
C5_ChangeIsSentAndRestartsTimer ==
  [][ /\ ( /\ ev'.kind = "tick"
           /\ _create_write_requests(force_zone_on) # <<>>
           /\ PreviousActions(state) # _create_write_requests(force_zone_on) )
         => tasks' = tasks (+) SetToBag({Task("send_changed",
                                              _create_write_requests(force_zone_on), 1)})
      /\ (ev'.kind = "returned" /\ BagCardinality(tasks') < BagCardinality(tasks))
         => /\ state'.keys
            /\ state'.previous_actions = ev'.actions
            /\ BagIn(Task("send_changed", ev'.actions, 1), tasks)
               \/ \E n \in 1..2 : BagIn(Task("send_heartbeat", ev'.actions, n), tasks)
            /\ state'.age = 0
      /\ \A a \in {_create_write_requests(force_zone_on)} \cup {t.actions : t \in BagToSet(tasks)},
            n \in 1..2 :
           LET h == Task("send_heartbeat", a, n)
           IN CopiesIn(h, tasks') > CopiesIn(h, tasks)
              => state'.keys /\ state'.age > HEARTBEAT ]_vars

\* a changed desired state has been sent and recorded, replacing an older batch
C5_Witness ==
  /\ ev.kind = "returned"
  /\ ev.stamped
  /\ ev.previous_actions # <<>>
  /\ ev.previous_actions # ev.actions
  /\ user_acted
  /\ state.previous_actions = _create_write_requests(force_zone_on)
  /\ state.age = 0

\* C6 as stated: the time between the recorded times of two consecutive
\* successful submissions never exceeds the threshold plus one tick.
C6_GapBetweenSuccessfulSends ==
  ( /\ ev.kind = "returned"
    /\ ev.stamped
    /\ ev.previous_actions # <<>>
    /\ ~ev.failed_before )
  => ev.elapsed <= HEARTBEAT + TICK

\* C6, amended: while writes succeed, whenever no submission is in progress
\* the last successful submission was recorded at most the threshold plus
\* one tick ago, whether or not the desired state changed; so the next
\* submission starts within that time of the recorded one.
C6_NextSendStartsInTime ==
  (state.keys /\ ~failed_since /\ force_zone_on[1] # None /\ InFlight = 0)
  => state.age <= HEARTBEAT + TICK

\* the heartbeat resend of an unchanged batch, started one tick past the threshold
C6_Witness ==
  /\ ev.kind = "tick"
  /\ ev.heartbeat
  /\ ev.submitted
  /\ ev.elapsed = HEARTBEAT + TICK
  /\ ~failed_since
  /\ ~user_acted

\* C7: at most one execution of the loop body is in flight at any time.
C7_SingleFlight == InFlight <= 1

\* C8: while no user action has occurred, every tick computes an empty batch
\* and submits nothing.
C8_NothingBeforeUserAction ==
  ~user_acted =>
    /\ InFlight = 0
    /\ ~state.keys
    /\ ev.kind = "tick" => (ev.actions = <<>> /\ ~ev.submitted)

-----------------------------------------------------------------------------
(* Properties of the read scheduler, under SpecPoll *)

\* C9: every characteristic with READ and read action POLL is in the read set
\* of every poll that reaches its reads, whatever is_first_poll and the two
\* timestamps are.
C9_PeriodicAlwaysRead ==
  ppc = "gather" =>
    \A k \in 1..Len(gatt) :
      (READ \in gatt[k].properties /\ gatt[k].read_action = POLL) => k \in pread

\* a poll that is not the first, long after any write, reads a POLL characteristic
C9_Witness ==
  /\ ppc = "gather"
  /\ ~pfirst
  /\ successful_write_age = PastAge
  /\ successful_notification_age = PastAge
  /\ \E k \in pread : gatt[k].read_action = POLL

\* C10: a characteristic with read action INDEX is in the read set of a poll
\* if and only if is_first_poll is true and it has READ.
C10_OnceOnlyOnFirstPoll ==
  ppc = "gather" =>
    \A k \in 1..Len(gatt) :
      gatt[k].read_action = INDEX =>
        (k \in pread <=> (pfirst /\ READ \in gatt[k].properties))

\* a poll that is not the first, right after a write and a notification,
\* leaves out a readable INDEX characteristic
C10_Witness ==
  /\ ppc = "gather"
  /\ ~pfirst
  /\ successful_write_age < DEFAULT_AFTER_WRITE_INTERVAL
  /\ successful_notification_age < DEFAULT_AFTER_NOTIFICATION_INTERVAL
  /\ \E k \in 1..Len(gatt) :
       /\ gatt[k].read_action = INDEX
       /\ READ \in gatt[k].properties
       /\ k \notin pread

\* the step in which poll() computes its read set
ReadSetComputed == ppc # "gather" /\ ppc' = "gather"

\* C11 as stated: a READ characteristic with read action AFTER_WRITE is in the
\* read set of a poll if and only if now - last successful write is below the
\* write window, also when the poll is the first one.
C11_AfterWriteOnlyInWindow ==
  [][ ReadSetComputed =>
        \A k \in 1..Len(gatt) :
          (READ \in gatt[k].properties /\ gatt[k].read_action = AFTER_WRITE) =>
            (k \in pread' <=> successful_write_age < DEFAULT_AFTER_WRITE_INTERVAL) ]_vars

\* C11, amended: a READ characteristic with read action AFTER_WRITE is in the
\* read set of a poll if and only if the poll is the first one or
\* now - last successful write is below the write window.
C11_AfterWriteInWindowOrFirst ==
  [][ ReadSetComputed =>
        \A k \in 1..Len(gatt) :
          (READ \in gatt[k].properties /\ gatt[k].read_action = AFTER_WRITE) =>
            (k \in pread' <=> (pfirst \/ successful_write_age < DEFAULT_AFTER_WRITE_INTERVAL)) ]_vars

\* a first poll, long after any write, that reads an AFTER_WRITE characteristic
C11_Witness ==
  /\ ppc = "gather"
  /\ pfirst
  /\ successful_write_age = PastAge
  /\ subscribed = {}
  /\ \E k \in pread : gatt[k].read_action = AFTER_WRITE

\* C12 as stated: a READ characteristic with read action AFTER_NOTIFICATION
\* is in the read set of a poll only while now - last notification is below
\* the notification window.
C12_AfterNotificationOnlyInWindow ==
  [][ ReadSetComputed =>
        \A k \in 1..Len(gatt) :
          (READ \in gatt[k].properties /\ gatt[k].read_action = AFTER_NOTIFICATION
           /\ k \in pread')
          => successful_notification_age < DEFAULT_AFTER_NOTIFICATION_INTERVAL ]_vars

\* C12, amended: in a poll that is not the first one, a READ characteristic
\* with read action AFTER_NOTIFICATION is in the read set only while
\* now - last notification is below the notification window; the first poll
\* reads it whatever the time of the last notification.
C12_AfterNotificationInWindowUnlessFirst ==
  [][ ReadSetComputed =>
        \A k \in 1..Len(gatt) :
          (READ \in gatt[k].properties /\ gatt[k].read_action = AFTER_NOTIFICATION) =>
            /\ (~pfirst /\ k \in pread')
               => successful_notification_age < DEFAULT_AFTER_NOTIFICATION_INTERVAL
            /\ pfirst => k \in pread' ]_vars

\* a poll that is not the first, with the last notification exactly a window
\* ago, that leaves out a readable AFTER_NOTIFICATION characteristic
C12_Witness ==
  /\ ppc = "gather"
  /\ ~pfirst
  /\ successful_notification_age = DEFAULT_AFTER_NOTIFICATION_INTERVAL
  /\ successful_write_age = PastAge
  /\ \E k \in 1..Len(gatt) :
       /\ gatt[k].read_action = AFTER_NOTIFICATION
       /\ READ \in gatt[k].properties
       /\ k \notin pread

-----------------------------------------------------------------------------
(* More properties of the write dispatcher, under Spec *)

\* C13: a write() call whose batch carries an authorization payload longer
\* than 20 characters performs no wire write, does not return normally and
\* leaves the time of the last successful write as it was.
C13_LongPasswordRejected ==
  \A c \in Writers :
    wbatch[c] = LongAuthBatch =>
      /\ sent[c] = <<>>
      /\ wpc[c] # "returned"

\* C18: at most one session establishment is in flight at any time, it runs
\* under _client_lock, it is only started when there is no live session, and
\* a call that gets the lock while a session is live goes on with that session.
C18_OneEstablishmentAtATime ==
  [][ /\ Cardinality({c \in Writers : wpc'[c] = "establish_connection"}) <= 1
      /\ \A c \in Writers :
           /\ wpc'[c] = "establish_connection" => client_lock' = c
           /\ (wpc[c] = "make_client" /\ wpc'[c] = "establish_connection")
              => (~client_connected /\ client_lock = 0)
           /\ (wpc[c] = "make_client" /\ wpc'[c] # "make_client" /\ client_connected)
              => (wpc'[c] # "establish_connection" /\ client_connected') ]_vars

\* two calls are writing on the one session: one of them established it while
\* the other waited for the lock, and no call has failed
C18_Witness ==
  /\ client_connected
  /\ client_lock = 0
  /\ \A c \in Writers : wpc[c] = "write_gatt_char"
  /\ Len(wire) = NumWriters

-----------------------------------------------------------------------------
(* Properties of setup, poll and the result store, under SpecPoll *)

\* C14: setup() goes on to its subscriptions with a session established; when
\* they are done every NOTIFY characteristic with read action SUBSCRIBE has
\* its handler registered on that session; and when setup() returns, its
\* poll was a first poll, every READ characteristic with read action INDEX, SUBSCRIBE or POLL
\* has been read exactly once and no characteristic more than once, and the
\* results hold the setup_timestamp key and the key of every read that
\* decoded to a result.
C14_SetupSeedsTheStore ==
  [][ /\ (ppc \in {"setup_make_client", "setup_establish"} /\ ppc' = "start_notify")
         => client_connected'
      /\ (ppc = "start_notify" /\ ppc' = "poll_make_client" /\ client_connected)
         => subscribed' = NotificationCharacteristics(gatt)
      /\ (ppc = "gather" /\ ppc' = "returned" /\ pvia_setup) =>
           /\ setup_timestamp \in results'
           /\ \A k \in decoded' : ResultKey(gatt[k]) \in results'
           /\ decoded' = Decodes(gatt, pread, TRUE)
              \/ decoded' = Decodes(gatt, pread, FALSE)
           /\ \A k \in 1..Len(gatt) :
                /\ CopiesIn(k, issued') <= 1
                /\ (READ \in gatt[k].properties
                    /\ gatt[k].read_action \in {INDEX, SUBSCRIBE, POLL})
                   => CopiesIn(k, issued') = 1
           /\ pfirst ]_vars

\* setup() has returned on a session with its subscriptions, before any
\* notification or write: the results hold the marker and the decoded reads
C14_Witness ==
  /\ ppc = "returned"
  /\ pvia_setup
  /\ ~presetup
  /\ client_connected
  /\ subscribed = NotificationCharacteristics(gatt)
  /\ subscribed # {}
  /\ successful_notification_age = PastAge
  /\ decoded # {}
  /\ results = {setup_timestamp} \cup Consumed(gatt, decoded)

\* C15: when establish_connection fails inside _make_client, the results
\* are empty by the time the error has reached the caller.
C15_StoreEmptyAfterFailedEstablish == ppc = "raised_establish" => results = {}

\* C16: after poll or setup has raised because a read or a subscription
\* failed, the session is not connected and the results are empty.
C16_IoFailureDisconnectsAndClears ==
  ppc \in {"raised_read", "raised_subscribe"} => (~client_connected /\ results = {})

\* C19: a poll that is not the first and finds no live session goes through
\* the whole of setup(): a session is acquired, then the handler of every
\* SUBSCRIBE characteristic is registered, then a first poll computes the reads.
C19_DeadSessionRerunsSetup ==
  [][ /\ (ppc \in Resting /\ ppc' \notin Resting /\ ~pfirst' /\ ~client_connected)
         => (ppc' = "setup_make_client" /\ pvia_setup')
      /\ (presetup /\ ppc \in {"setup_make_client", "setup_establish"} /\ ppc' # ppc)
         => \/ ppc' \in {"setup_establish", "raised_establish"}
            \/ ppc' = "start_notify" /\ client_connected'
      /\ (presetup /\ ppc = "start_notify" /\ ppc' # ppc)
         => \/ ppc' = "raised_subscribe"
            \/ /\ ppc' = "poll_make_client"
               /\ pfirst'
               /\ client_connected => subscribed' = NotificationCharacteristics(gatt)
      /\ (presetup /\ ReadSetComputed)
         => (pfirst /\ client_connected'
             /\ pread' = PollCharacteristics(gatt, TRUE, successful_write_age,
                                             successful_notification_age)) ]_vars

\* a poll that found the session dead is in the reads of the first poll of
\* setup(), on a new session with its subscriptions
C19_Witness ==
  /\ presetup
  /\ ppc = "gather"
  /\ pfirst
  /\ client_connected
  /\ subscribed = NotificationCharacteristics(gatt)
  /\ subscribed # {}
  /\ pread # {}

\* C20: while the reads of a poll are awaited no read is issued again; the
\* poll ends either by returning the snapshot or, when a read failed, by
\* raising, and over the whole call every characteristic is read at most once.
C20_FailedReadAbortsThePoll ==
  [][ /\ ppc = "gather" => (issued' = issued /\ ppc' \in {"gather", "returned", "raised_read"})
      /\ ppc' = "raised_read" => (ppc \in {"gather", "raised_read"})
      /\ \A k \in 1..Len(gatt) : CopiesIn(k, issued') <= 1 ]_vars

\* a poll has raised after one of its reads failed while the others had been
\* consumed; each read of the cycle was issued once
C20_Witness ==
  /\ ppc = "raised_read"
  /\ pread # {}
  /\ issued = SetToBag(pread)
  /\ decoded # {}
  /\ Consumed(gatt, decoded) \subseteq results

-----------------------------------------------------------------------------
(* Properties of shutdown, under SpecSession *)

\* C17: shutdown() can be called whenever no shutdown() is running; its own
\* code raises only what disconnect() raised; and when it returns the
\* session is not connected and the results are empty.
C17_ShutdownLeavesNothing ==
  [][ /\ (spc \in {"idle", "returned", "raised"}) => ENABLED ShutdownCall
      /\ ((ShutdownCall \/ ShutdownAcquires \/ DisconnectReturns) /\ spc' = "returned")
         => (~client_connected' /\ results' = {} /\ client_lock' = 0)
      /\ (spc' = "raised" /\ spc # "raised") => spc = "disconnect"
      /\ (spc' = "returned" /\ spc \notin {"idle", "returned", "raised"})
         => (~client_connected' /\ results' = {}) ]_vars

\* shutdown() has returned while setup() was registering its subscriptions
\* on a session: the session is gone and the seeded results are cleared
C17_Witness ==
  /\ spc = "returned"
  /\ ppc = "start_notify"
  /\ ~client_connected
  /\ results = {}
  /\ client_lock = 0

-----------------------------------------------------------------------------
(* Failures and frame effects of the write dispatcher, under Spec *)

\* C21: when a wire write of a write() call fails, the call raises at that
\* intent: nothing more is transformed or written by it, then or later, and
\* the step leaves the time of the last successful write as it was, also when
\* earlier intents of the batch had been written.
C21_FailedWriteAbortsTheBatch ==
  [][ \A c \in Writers :
        /\ (wpc[c] = "write_gatt_char" /\ wpc'[c] \notin {"write_gatt_char", "sleep"})
           => /\ wpc'[c] = "raised"
              /\ sent' = sent /\ wire' = wire
              /\ wi'[c] = wi[c] /\ wj'[c] = wj[c]
              /\ successful_write_age' = successful_write_age
        /\ wpc[c] = "raised"
           => (wpc'[c] = "raised" /\ sent'[c] = sent[c] /\ wi'[c] = wi[c]) ]_vars

\* two calls with the batch [authorize, force_zone_on] have raised, one at its
\* first wire write and one at its second, and no write time was taken
C21_Witness ==
  /\ \A c \in Writers : wbatch[c] = AuthForceBatch /\ wpc[c] = "raised"
  /\ \E c \in Writers : Len(sent[c]) = 1 /\ wi[c] = 1
  /\ \E c \in Writers : Len(sent[c]) = 2 /\ wi[c] = 2
  /\ successful_write_age = PastAge

\* C22: an intent that no WRITE characteristic's write_transform answers
\* causes no wire write and no error, and the intents after it are still
\* written: every wire write belongs to an intent some characteristic
\* answers, a call only raises at an intent that is not of this kind, and a
\* call that returned has written every intent some characteristic answers.
C22_UnroutableIntentIsSkipped ==
  [][ \A c \in Writers :
        /\ sent'[c] # sent[c]
           => ~Unroutable(gatt, wbatch[c][sent'[c][Len(sent'[c])].i])
        /\ (wpc'[c] = "raised" /\ wpc[c] \notin {"raised", "establish_connection"})
           => /\ wi'[c] \in 1..Len(wbatch[c])
              /\ ~Unroutable(gatt, wbatch[c][wi'[c]])
        /\ (wpc[c] # "returned" /\ wpc'[c] = "returned")
           => /\ \A i \in 1..Len(wbatch[c]) :
                   Unroutable(gatt, wbatch[c][i])
                   \/ (\A j \in 1..Len(gatt) :
                         write_transform(gatt[j], wbatch[c][i]) \in {NoBytes, Bytes(<<>>)})
                   \/ \E k \in 1..Len(sent'[c]) : sent'[c][k].i = i
              /\ wbatch[c] = UnroutableFirstBatch
                 => /\ Len(sent'[c]) = 1
                    /\ sent'[c][1].i = 2
                    /\ gatt[sent'[c][1].j].name = "networkDiagnosticMode" ]_vars

\* a call whose batch starts with an intent no characteristic answers has
\* returned after writing the intent that follows it
C22_Witness ==
  \E c \in Writers :
    /\ wbatch[c] = UnroutableFirstBatch
    /\ Unroutable(gatt, wbatch[c][1])
    /\ wpc[c] = "returned"
    /\ Len(sent[c]) = 1
    /\ sent[c][1].i = 2

\* C23: a write() call takes the time of the last successful write if and
\* only if it returns without error after at least one wire write: the step
\* in which a call returns sets the time when the call has written and leaves
\* it when it has not (an empty batch, or intents no characteristic answers);
\* no other step of a call changes it; and the time is taken after the settle
\* delay of the call's last wire write, no write of the call following it.
C23_WriteTimeOnlyAfterWrittenBatch ==
  [][ /\ \A c \in Writers :
           /\ (wpc[c] # "returned" /\ wpc'[c] = "returned")
              => /\ sent'[c] = sent[c]
                 /\ IF sent[c] # <<>>
                      THEN successful_write_age' = 0 /\ wpc[c] = "sleep"
                    ELSE successful_write_age' = successful_write_age
           /\ wpc[c] = "returned" => (wpc'[c] = "returned" /\ sent'[c] = sent[c])
      /\ (\A c \in Writers : wpc[c] = "returned" \/ wpc'[c] # "returned")
         => successful_write_age' = successful_write_age ]_vars

\* a call whose only intent no characteristic answers has returned without a
\* write, and a call that wrote both intents of its batch has returned and
\* the write time was taken
C23_Witness ==
  \E a \in Writers, b \in Writers :
    /\ wbatch[a] = <<unknown_request>> /\ wpc[a] = "returned" /\ sent[a] = <<>>
    /\ wbatch[b] = AuthForceBatch /\ wpc[b] = "returned" /\ Len(sent[b]) = 2
    /\ successful_write_age = 0

-----------------------------------------------------------------------------
(* Properties of the transforms, under SpecCodec *)

\* C24: for every assignment of the six zone flags the force-zone write
\* transform gives the frame 0, 16, 0, zone byte, where the zone byte is the
\* sum of the weights 1, 2, 4, 8, 16, 32 of the zones that are on, and the
\* diagnostic read transform, given a force-zone status frame with that zone
\* byte, gives back the same six flags; zone 3 alone is zone byte 4.
C24_ZoneRoundTrip ==
  LET weight(n) == IF zones_in[n] = "True" THEN 2 ^ (n - 1) ELSE 0
      zone_byte == weight(1) + weight(2) + weight(3) + weight(4) + weight(5) + weight(6)
  IN /\ cpc # "input" => wframe = <<0, 16, 0, zone_byte>>
     /\ (cpc # "input"
         /\ zones_in = <<"False", "False", "True", "False", "False", "False">>)
        => wframe[4] = 4
     /\ (cpc = "decoded" /\ Len(rframe) >= MinFrameLen /\ rframe[1] = 0 /\ rframe[2] = 16)
        => /\ rresult.tag = "result"
           /\ rresult.key = NETWORK_DIAGNOSTIC_FORCE_ZONE_STATUS
           /\ rresult.value = zones_in

\* zones 3 and 6 alone have gone through both transforms: zone byte 36 out,
\* the same two zones back
C24_Witness ==
  /\ cpc = "decoded"
  /\ zones_in = <<"False", "False", "True", "False", "False", "True">>
  /\ wframe = <<0, 16, 0, 36>>
  /\ Len(rframe) = MinFrameLen /\ rframe[1] = 0 /\ rframe[2] = 16 /\ rframe[3] = 255
  /\ rresult.tag = "result"
  /\ rresult.value = zones_in

-----------------------------------------------------------------------------
(* The lock of the results, under SpecPoll *)

\* C25: every read and every write of _results, of the time of the last
\* successful write and of the time of the last notification is made while
\* _results_lock is held.
C25_EveryAccessUnderTheLock == \A a \in touched : a.locked

-----------------------------------------------------------------------------
(* The two locks, under SpecLocks *)

\* C26: _client_lock and _results_lock cannot deadlock each other: no task
\* waits for one of them while it holds the other, so no cycle of waiting
\* tasks can close, and, the wire operations coming to an end, every task
\* that waits for a lock gets it.
C26_LocksDoNotDeadlock ==
  /\ [](\A t \in LockTasks :
          /\ ~(client_lock = t /\ (WantsResultsLock(t) \/ results_lock = t))
          /\ ~(results_lock = t /\ WantsClientLock(t)))
  /\ \A t \in LockTasks : WantsClientLock(t) ~> ~WantsClientLock(t)
  /\ \A t \in LockTasks : WantsResultsLock(t) ~> results_lock = t

\* both locks are held, _client_lock across an establish_connection, and
\* other tasks wait for each of them
C26_Witness ==
  /\ client_lock \in LockTasks
  /\ lpc[client_lock] = "establish"
  /\ results_lock \in LockTasks
  /\ results_lock # client_lock
  /\ \E t \in LockTasks : WantsClientLock(t)
  /\ \E t \in LockTasks : WantsResultsLock(t)

-----------------------------------------------------------------------------
(* Undecodable frames and the snapshot, under SpecPoll *)

\* C27: when the read_transform of a characteristic cannot interpret the
\* bytes read in a poll, the result is dropped and the poll does not raise.
C27_UndecodableFrameIsNotPropagated == pfault = "transform" => ppc # "raised_read"

\* C30: every call of poll that returns, the one that handed over to setup()
\* included, returns a snapshot, and the snapshot holds the result of every
\* read of the call that was consumed.
C30_PollReturnsTheSnapshot ==
  (ppc = "returned" /\ (~pvia_setup \/ presetup))
  => (preturn.tag = "snapshot" /\ Consumed(gatt, decoded) \subseteq preturn.keys)

\* C28: when a read_transform gives no result, as
\* read_network_diagnostic_data_transform does for bytes it does not know,
\* the poll still returns, the results of the other reads of the cycle are
\* stored, nothing is stored for the read without a result, and the time of
\* the last notification stays as it was.
C28_NoResultIsDroppedSilently ==
  [][ (ppc = "gather" /\ ppc' = "returned") =>
        /\ Decodes(gatt, pread, FALSE) \subseteq decoded'
        /\ results' = results \cup Consumed(gatt, decoded')
        /\ \A k \in pread \ decoded' :
             ResultKey(gatt[k]) \in Consumed(gatt, decoded')
             \/ (ResultKey(gatt[k]) \in results' <=> ResultKey(gatt[k]) \in results)
        /\ successful_notification_age' = successful_notification_age
        /\ pfault' = "none" ]_vars

\* a first poll on the Taco catalog has returned although the diagnostic data
\* gave no result: the store holds the other four reads and nothing of it
C28_Witness ==
  /\ ppc = "returned"
  /\ gatt = taco_gatt
  /\ \E k \in pread \ decoded :
       /\ gatt[k].read_transform = "read_network_diagnostic_data_transform"
       /\ ResultKey(gatt[k]) \notin results
  /\ Cardinality(decoded) = 4
  /\ Consumed(gatt, decoded) \subseteq results

\* C29: when the registration of a subscription fails in setup(), setup()
\* raises and its first poll is not started: the call has computed no read
\* set and issued no read, and setup() leaves its subscriptions only towards
\* its first poll or by raising.
C29_FailedSubscriptionAbortsSetup ==
  [][ /\ ppc = "start_notify"
         => ppc' \in {"start_notify", "poll_make_client", "raised_subscribe"}
      /\ ppc' = "raised_subscribe"
         => /\ ppc \in {"start_notify", "raised_subscribe"}
            /\ pread' = {}
            /\ issued' = EmptyBag
            /\ decoded' = {}
            /\ preturn' = NoReturn ]_vars

\* setup() has raised from its subscriptions on a session that is still
\* connected; no read was issued and the store holds the marker alone
C29_Witness ==
  /\ ppc = "raised_subscribe"
  /\ pvia_setup
  /\ client_connected
  /\ issued = EmptyBag
  /\ results = {setup_timestamp}

-----------------------------------------------------------------------------
(* Properties of the notification handler, under SpecPoll *)

\* C31: every push notification delivered for a subscribed characteristic
\* sets the time of the last notification to the time of its delivery and
\* stores the decoded value under the key of the characteristic, whatever
\* bytes it carries.
C31_EveryNotificationIsStampedAndStored ==
  pushed # NoPush
    => /\ successful_notification_age = 0
       /\ ResultKey(gatt[pushed.k]) \in results

\* C31 (amended): a push notification whose read_transform returns a result
\* sets the time of the last notification to the time of its delivery and
\* stores the value under the key of the characteristic; a notification whose
\* transform raises or returns no such result changes neither the time nor
\* the store.  A poll that computes its read set less than the notification
\* interval after the last stored notification reads every READ
\* characteristic whose read action is AFTER_NOTIFICATION.
C31_DecodedNotificationIsStampedAndStored ==
  [][ /\ pushed' # NoPush
         => IF pushed'.outcome = "stored"
              THEN /\ successful_notification_age' = 0
                   /\ ResultKey(gatt[pushed'.k]) \in results'
                   /\ gatt[pushed'.k].read_transform # "default"
            ELSE UNCHANGED <<successful_notification_age, results>>
      /\ (ReadSetComputed
          /\ successful_notification_age < DEFAULT_AFTER_NOTIFICATION_INTERVAL)
         => \A k \in 1..Len(gatt) :
              (READ \in gatt[k].properties /\ gatt[k].read_action = AFTER_NOTIFICATION)
                => k \in pread' ]_vars

\* a notification of a Taco characteristic has just been stored and stamped
C31_Witness ==
  /\ pushed # NoPush
  /\ pushed.outcome = "stored"
  /\ gatt = taco_gatt
  /\ successful_notification_age = 0
  /\ ResultKey(gatt[pushed.k]) \in results

-----------------------------------------------------------------------------
(* Properties of the subscriptions, under SpecPoll *)

\* C32: once setup() has completed, a live session has a push handler for
\* every NOTIFY characteristic whose read action is SUBSCRIBE; stated for the
\* states in which the polling task's last call was a setup() that returned.
C32_LiveSessionIsSubscribed ==
  (ppc = "returned" /\ pvia_setup /\ client_connected)
    => NotificationCharacteristics(gatt) \subseteq subscribed

-----------------------------------------------------------------------------
(* Properties of the write dispatcher over catalogs, under SpecCatalogs *)

\* C33: a write() call issues at most one wire write for each intent of its
\* batch: after a characteristic has returned bytes for the intent and has
\* been written, no later characteristic of the catalog is written for it.
C33_AtMostOneWritePerIntent ==
  \A c \in Writers :
    \A k, l \in 1..Len(sent[c]) : sent[c][k].i = sent[c][l].i => k = l

-----------------------------------------------------------------------------
(* Properties of the read policy over the lifetime, under SpecPoll *)

\* C34: a READ characteristic whose read action is INDEX is read once only:
\* when its result is in the store already, the poll that setup() issues
\* after a poll has found the session lost does not read it again.
C34_IndexIsNotReadAgain ==
  \A k \in 1..Len(gatt) :
    ( /\ READ \in gatt[k].properties
      /\ gatt[k].read_action = INDEX
      /\ ResultKey(gatt[k]) \in results
      /\ presetup
      /\ ppc = "gather" )
      => k \notin pread

-----------------------------------------------------------------------------
(* Properties of the two comprehensions, under SpecCatalogs *)

\* the read set of poll() on the catalog g holds no characteristic whose
\* read action is NOOP and none without READ, whatever is_first_poll and the
\* ages of the two timestamps are
ReadSetLeavesOut(g) ==
  \A is_first_poll \in BOOLEAN, write_age \in 0..PastAge,
     notification_age \in 0..PastAge :
    \A k \in PollCharacteristics(g, is_first_poll, write_age, notification_age) :
      READ \in g[k].properties /\ g[k].read_action # NOOP

\* the same on the Taco catalog and on the catalog of all shapes
ReadSetLeavesOutOfShapes == ReadSetLeavesOut(taco_gatt) /\ ReadSetLeavesOut(shapes_gatt)

\* C35: whatever is_first_poll and the ages of the two timestamps are, the
\* read set of poll() holds no characteristic whose read action is NOOP and
\* none without READ, on the catalog in use, on the Taco catalog and on the
\* catalog of all shapes; and write() issues no wire write to a
\* characteristic without WRITE, even when its write transform answers the
\* request.
C35_NoopAndForeignOperationsAreLeftOut ==
  /\ ReadSetLeavesOutOfShapes
  /\ ReadSetLeavesOut(gatt)
  /\ \A c \in Writers :
       \A k \in 1..Len(sent[c]) : WRITE \in gatt[sent[c][k].j].properties

\* a write() call has returned after writing, on a catalog whose first
\* characteristic answers the first request but has no WRITE, and which has a
\* READ characteristic with NOOP beside one that a first poll reads
C35_Witness ==
  \E c \in Writers :
    /\ wpc[c] = "returned"
    /\ Len(sent[c]) >= 1
    /\ WRITE \notin gatt[1].properties
    /\ write_transform(gatt[1], wbatch[c][1]).tag = "bytes"
    /\ \E k \in 1..Len(gatt) : READ \in gatt[k].properties /\ gatt[k].read_action = NOOP
    /\ PollCharacteristics(gatt, TRUE, successful_write_age,
                           successful_notification_age) # {}

-----------------------------------------------------------------------------
(* Properties of the reconciliation loop after a failed write, under SpecLoop *)

C37_BatchIsAuthorizationThenCommand ==
  [][ \A t \in BagToSet(tasks') :
        /\ Len(t.actions) = 2
        /\ t.actions[1] = WriteRequest(PROVIDE_PASSWORD, runtime_password)
        /\ t.actions[2].action = FORCE_ZONE_ON
        /\ t.actions[2].extra.kind = "zones"
        /\ Len(t.actions[2].extra.zones) = Len(BYTE_BY_ZONE)
        /\ (ev'.kind = "tick" /\ CopiesIn(t, tasks') > CopiesIn(t, tasks))
           => t.actions[2].extra.zones = force_zone_on ]_vars

\* a batch with zone 1 on is in flight, submitted after the user turned it on
C37_Witness ==
  /\ user_acted
  /\ ev.kind = "tick"
  /\ ev.submitted
  /\ \E t \in BagToSet(tasks) :
       /\ t.actions = ev.actions
       /\ t.actions[2].extra.zones = force_zone_on
       /\ force_zone_on[1] = "True"

-----------------------------------------------------------------------------
(* Properties of the reads of a failed cycle, under SpecStragglers *)

\* C38: after a poll call has raised because one of its reads failed, and
\* until the polling task makes its next call, no step but the delivery of a
\* notification changes the result store.
C38_NoStoreMutationAfterRaise ==
  [][ (ppc = "raised_read" /\ ppc' = "raised_read" /\ pushed' = NoPush)
      => results' = results ]_vars

-----------------------------------------------------------------------------
(* Properties of the desired state, under SpecZones *)

-----------------------------------------------------------------------------
(* The keys of the diagnostic data, under SpecCodec *)

\* C40: for a frame of the length it accepts, the diagnostic read transform
\* takes the result key from the first two bytes: 0, 0 gives the empty
\* marker, 1, 0 the onboard inputs, 4, 0 the daughter card, 16, 0 the
\* operating mode, 0, 16 the force-zone status with the six flags read from
\* the bits of byte 3, 0, 32 the last exception, and every other pair gives
\* no result.
C40_KeyFollowsDiscriminator ==
  (cpc = "decoded" /\ Len(rframe) >= MinFrameLen) =>
    LET d == <<rframe[1], rframe[2]>>
        key(k) == rresult.tag = "result" /\ rresult.key = k
    IN CASE d = <<0, 0>> -> key("empty_network_diagnostic_data")
         [] d = <<1, 0>> -> key("network_diagnostic_onboard_inputs")
         [] d = <<4, 0>> -> key("network_diagnostic_daughter_card")
         [] d = <<16, 0>> -> key("network_diagnostic_operating_mode")
         [] d = <<0, 16>> ->
              /\ key("network_diagnostic_force_zone_status")
              /\ \A n \in 1..6 :
                   rresult.value[n] = "True" <=> (rframe[4] \div 2 ^ (n - 1)) % 2 = 1
         [] d = <<0, 32>> -> key("network_diagnostic_last_exception")
         [] OTHER -> rresult.tag = "none"

\* a frame of twenty bytes that starts with 0, 32 was decoded to the last
\* exception
C40_Witness ==
  /\ cpc = "decoded"
  /\ Len(rframe) = MinFrameLen
  /\ rframe[1] = 0 /\ rframe[2] = 32
  /\ rresult.tag = "result"
  /\ rresult.key = "network_diagnostic_last_exception"
====
